---- MODULE Spec2Model ----
(***************************************************************************)
(* Cohort scheduling of the course platform (src/core/scheduling.py):      *)
(*   - the interval blocker  remove_blocked_intervals,                     *)
(*   - the multi-course orchestrator  schedule_people,                     *)
(*   - the database-backed  schedule_cohort.                               *)
(* Several specifications share the module: SpecBlocker and SpecGrouper    *)
(* (pure functions over bounded inputs), Spec (one schedule_people pass),  *)
(* SpecSchedule (schedule), SpecCohort and SpecConcurrent (schedule_cohort *)
(* calls against the tables) and SpecOverlap (find_availability_overlap).  *)
(***************************************************************************)
EXTENDS Integers, Sequences, FiniteSets, TLC

VARIABLES
    \* ---- remove_blocked_intervals as a call: argument, argument, return value
    rb_person, rb_blocked, rb_result,
    \* the Person objects there are, and which of them the call returned
    rb_objects, rb_result_ref,
    \* ---- schedule_people: parameters, locals, loop position
    all_people, min_people, balance, facilitator_ids,
    people_by_course, course_pos, assigned_times, course_results,
    total_scheduled, total_cohorts, total_balance_moves,
    optimizer_calls, pc,
    \* what the caller of schedule_people or schedule gets: the exception raised
    \* ("" for none) and the value returned
    raised, pass_result,
    \* ---- schedule: its facilitator_mode parameter and the user_data it loads
    facilitator_mode, loaded_user_data,
    \* ---- schedule_cohort: the tables, the id sequence, the call being made
    users, courses_users, groups, groups_users, next_group_id,
    call, calls_started,
    \* a second schedule_cohort call, suspended at an await while call runs
    other_call,
    \* ---- find_availability_overlap as a call: arguments and return value
    member_ids, stored_user_data, overlap

blockerVars == <<rb_person, rb_blocked, rb_result, rb_objects, rb_result_ref>>
passVars == <<all_people, min_people, balance, facilitator_ids,
              people_by_course, course_pos, assigned_times, course_results,
              total_scheduled, total_cohorts, total_balance_moves,
              optimizer_calls, pc, raised, pass_result>>
scheduleVars == <<facilitator_mode, loaded_user_data>>
cohortVars == <<users, courses_users, groups, groups_users, next_group_id,
                call, calls_started, other_call>>
overlapVars == <<member_ids, stored_user_data, overlap>>
vars == <<blockerVars, passVars, scheduleVars, cohortVars, overlapVars>>

\* what a step of one part of the program leaves alone
notBlockerVars == <<passVars, scheduleVars, cohortVars, overlapVars>>
notPassVars == <<blockerVars, scheduleVars, cohortVars, overlapVars>>
notCohortVars == <<blockerVars, passVars, scheduleVars, overlapVars>>
notOverlapVars == <<blockerVars, passVars, scheduleVars, cohortVars>>

\* Python's None, for a value that is otherwise a tuple or a list
None == <<>>

-----------------------------------------------------------------------------
(* Bounds *)

\* The week is cut into the minutes 0..BlockerHorizon for the blocker's inputs.
BlockerHorizon == 3
\* Longest blocked_times list handed to the blocker.
MaxBlocked == 2

-----------------------------------------------------------------------------
(* Availability model: an interval is (start, end), half-open. *)

Intervals(h) == {<<s, e>> : s \in 0..(h - 1), e \in 1..h} \cap {iv \in (0..h) \X (0..h) : iv[1] < iv[2]}

\* 4.1: (s1,e1) and (s2,e2) conflict iff s1 < e2 and s2 < e1
Conflict(a, b) == a[1] < b[2] /\ b[1] < a[2]

PairwiseDisjoint(S) == \A a \in S : \A b \in S : a # b => ~Conflict(a, b)

RECURSIVE SortedSeq(_)
SortedSeq(S) ==
    IF S = {} THEN <<>>
    ELSE LET first == CHOOSE a \in S : \A b \in S : a[1] <= b[1]
         IN  <<first>> \o SortedSeq(S \ {first})

\* Every availability a stored user can have: two sorted lists of disjoint
\* intervals, disjoint from each other.
Availabilities(h) ==
    {[intervals |-> SortedSeq(C), if_needed_intervals |-> SortedSeq(S \ C)] :
        <<S, C>> \in {sc \in (SUBSET Intervals(h)) \X (SUBSET Intervals(h)) :
                          sc[2] \subseteq sc[1] /\ PairwiseDisjoint(sc[1])}}

Range(s) == {s[i] : i \in 1..Len(s)}

RECURSIVE SeqsUpTo(_, _)
SeqsUpTo(S, n) ==
    IF n = 0 THEN {<<>>}
    ELSE SeqsUpTo(S, n - 1) \cup {Append(q, x) : q \in {r \in SeqsUpTo(S, n - 1) : Len(r) = n - 1}, x \in S}

\* class Person (name, timezone and experience are carried along unchanged)
MkPerson(id, av, courses) ==
    [id |-> id, intervals |-> av.intervals,
     if_needed_intervals |-> av.if_needed_intervals, courses |-> courses]

-----------------------------------------------------------------------------
(* calculate_total_available_time *)

RECURSIVE SumLengths(_)
SumLengths(ivs) ==
    IF ivs = <<>> THEN 0
    ELSE (Head(ivs)[2] - Head(ivs)[1]) + SumLengths(Tail(ivs))

calculate_total_available_time(person) ==
    SumLengths(person.intervals) + SumLengths(person.if_needed_intervals)

-----------------------------------------------------------------------------
(* remove_blocked_intervals *)

\* Mutant of the inner test: closed ranges, so touching endpoints conflict.
ConflictsWithBlockedClosed(start, end, b) == start <= b[2] /\ end >= b[1]

\* the inner test: start < b_end and end > b_start
ConflictsWithBlocked(start, end, b) == start < b[2] /\ end > b[1]

\* the inner loop over blocked_times, with its break
RECURSIVE AnyConflict(_, _, _)
AnyConflict(start, end, blocked_times) ==
    IF blocked_times = <<>> THEN FALSE
    ELSE IF ConflictsWithBlocked(start, end, Head(blocked_times)) THEN TRUE
    ELSE AnyConflict(start, end, Tail(blocked_times))

\* Mutant of the append: the kept interval is put in front of the new list.
KeepIntervalInFront(new_list, iv) == <<iv>> \o new_list

\* new_intervals.append((start, end))
KeepInterval(new_list, iv) == Append(new_list, iv)

\* Mutant of the skipped append: the part of the interval that lies before
\* the first blocked time is kept.
SkipIntervalKeepingStart(new_list, iv, blocked_times) ==
    IF iv[1] < Head(blocked_times)[1]
    THEN Append(new_list, <<iv[1], Head(blocked_times)[1]>>)
    ELSE new_list

\* if not conflicts: ... has no else, an interval with a conflict adds nothing
SkipInterval(new_list, iv, blocked_times) == new_list

\* one of the two outer loops: keeps the intervals without a conflict, in order
RECURSIVE FilterIntervals(_, _, _)
FilterIntervals(ivs, blocked_times, new_list) ==
    IF ivs = <<>> THEN new_list
    ELSE FilterIntervals(Tail(ivs), blocked_times,
            IF AnyConflict(Head(ivs)[1], Head(ivs)[2], blocked_times)
            THEN SkipInterval(new_list, Head(ivs), blocked_times)
            ELSE KeepInterval(new_list, Head(ivs)))

\* Mutant of the early return: a Person rebuilt without its if-needed list.
ReturnWithoutIfNeeded(person) == [person EXCEPT !.if_needed_intervals = <<>>]

\* return person
ReturnUnchanged(person) == person

\* if not blocked_times: the Person object returned is the argument itself,
\* not a new one
ReturnsTheArgument(blocked_times) == blocked_times = <<>>

remove_blocked_intervals(person, blocked_times) ==
    IF ReturnsTheArgument(blocked_times) THEN ReturnUnchanged(person)
    ELSE [person EXCEPT
            !.intervals = FilterIntervals(person.intervals, blocked_times, <<>>),
            !.if_needed_intervals =
                FilterIntervals(person.if_needed_intervals, blocked_times, <<>>)]

-----------------------------------------------------------------------------
(* SpecBlocker: remove_blocked_intervals over every bounded input *)

PassIdle ==
    /\ all_people = <<>> /\ min_people = 0 /\ balance = FALSE
    /\ facilitator_ids = {} /\ people_by_course = <<>> /\ course_pos = 0
    /\ assigned_times = <<>> /\ course_results = <<>>
    /\ total_scheduled = 0 /\ total_cohorts = 0 /\ total_balance_moves = 0
    /\ optimizer_calls = <<>>
    /\ raised = "" /\ pass_result = None

ScheduleIdle == facilitator_mode = FALSE /\ loaded_user_data = <<>>

BlockerIdle ==
    /\ rb_person = None /\ rb_blocked = <<>> /\ rb_result = None
    /\ rb_objects = <<>> /\ rb_result_ref = 0

CohortIdle ==
    /\ users = <<>> /\ courses_users = <<>> /\ groups = <<>> /\ groups_users = <<>>
    /\ next_group_id = 0 /\ call = <<>> /\ calls_started = 0 /\ other_call = <<>>

OverlapIdle == member_ids = <<>> /\ stored_user_data = <<>> /\ overlap = None

\* The value a call has returned is held as a one-element list; None before.
Returned(v) == <<v>>

InitBlocker ==
    /\ rb_person \in {MkPerson("p1", av, <<>>) : av \in Availabilities(BlockerHorizon)}
    /\ rb_blocked \in SeqsUpTo(Intervals(BlockerHorizon), MaxBlocked)
    /\ rb_result = None
    /\ rb_objects = <<rb_person>> /\ rb_result_ref = 0
    /\ PassIdle /\ pc = "blocker"
    /\ CohortIdle /\ OverlapIdle /\ ScheduleIdle

\* the Person object handed to the call is the first object of rb_objects
ArgumentRef == 1

RemoveBlockedCall ==
    /\ pc = "blocker"
    /\ rb_result = None
    /\ rb_result' = Returned(remove_blocked_intervals(rb_objects[ArgumentRef], rb_blocked))
    /\ IF ReturnsTheArgument(rb_blocked)
       THEN rb_result_ref' = ArgumentRef /\ rb_objects' = rb_objects
       ELSE /\ rb_result_ref' = Len(rb_objects) + 1
            /\ rb_objects' = Append(rb_objects,
                                remove_blocked_intervals(rb_objects[ArgumentRef], rb_blocked))
    /\ UNCHANGED <<rb_person, rb_blocked, notBlockerVars>>

NextBlocker == RemoveBlockedCall

SpecBlocker == InitBlocker /\ [][NextBlocker]_vars

-----------------------------------------------------------------------------
(* group_people_by_course: a dict in insertion order, here a list of buckets *)

Uncategorized == "Uncategorized"

BucketOf(pbc, course) ==
    IF \E i \in 1..Len(pbc) : pbc[i].course_name = course
    THEN CHOOSE i \in 1..Len(pbc) : pbc[i].course_name = course
    ELSE 0

\* Mutant: the list of the course is made anew for every person.
AppendToBucketAnew(pbc, course, person) ==
    IF BucketOf(pbc, course) = 0
    THEN Append(pbc, [course_name |-> course, people |-> <<person>>])
    ELSE [pbc EXCEPT ![BucketOf(pbc, course)].people = <<person>>]

\* people_by_course[course].append(person), creating the list when missing
AppendToBucket(pbc, course, person) ==
    IF BucketOf(pbc, course) = 0
    THEN Append(pbc, [course_name |-> course, people |-> <<person>>])
    ELSE [pbc EXCEPT ![BucketOf(pbc, course)].people = Append(@, person)]

RECURSIVE AppendToCourses(_, _, _)
AppendToCourses(pbc, courses, person) ==
    IF courses = <<>> THEN pbc
    ELSE AppendToCourses(AppendToBucket(pbc, Head(courses), person), Tail(courses), person)

RECURSIVE GroupLoop(_, _)
GroupLoop(people, pbc) ==
    IF people = <<>> THEN pbc
    ELSE GroupLoop(Tail(people),
            IF Head(people).courses # <<>>
            THEN AppendToCourses(pbc, Head(people).courses, Head(people))
            ELSE AppendToBucket(pbc, Uncategorized, Head(people)))

group_people_by_course(people) == GroupLoop(people, <<>>)

-----------------------------------------------------------------------------
(* The external collaborators of schedule_people: optimizer and balancer *)

\* Bounds of a scheduling pass
Horizon == 2
MeetingLength == 1
MaxGroups == 2
MaxMinPeople == 2

MeetingTimes == {iv \in Intervals(Horizon) : iv[2] - iv[1] = MeetingLength}

\* The time lies inside the availability of the person (confirmed or if-needed).
Covers(person, time) ==
    \A t \in time[1]..(time[2] - 1) :
        \E iv \in Range(person.intervals) \cup Range(person.if_needed_intervals) :
            iv[1] <= t /\ t < iv[2]

\* Who goes where: 0 is "not placed", g > 0 is the g-th group. Groups are
\* numbered without gaps, in the order of their first member.
FirstOf(f, g) == CHOOSE i \in DOMAIN f : f[i] = g /\ \A j \in DOMAIN f : f[j] = g => i <= j

Placements(n) ==
    {f \in [1..n -> 0..MaxGroups] :
        \A g \in 1..MaxGroups :
            (\E i \in 1..n : f[i] = g) =>
                (g > 1 => /\ \E i \in 1..n : f[i] = g - 1
                          /\ FirstOf(f, g - 1) < FirstOf(f, g))}

GroupCount(f) == Cardinality({f[i] : i \in DOMAIN f} \ {0})

Members(people, f, g) ==
    LET idx == {i \in 1..Len(people) : f[i] = g}
        RECURSIVE Pick(_)
        Pick(i) == IF i > Len(people) THEN <<>>
                   ELSE (IF i \in idx THEN <<people[i]>> ELSE <<>>) \o Pick(i + 1)
    IN  Pick(1)

\* cohort_scheduler.schedule (through run_scheduling): every list of disjoint
\* groups over the population, each with no selected_time or a meeting time
\* inside the availability it was given for every member. The score is the
\* number of people placed.
OptimizerOutcomes(people) ==
    {[groups |-> [g \in 1..GroupCount(f) |->
                    [people |-> Members(people, f, g), selected_time |-> tt[g]]],
      score |-> Cardinality({i \in 1..Len(people) : f[i] # 0})] :
        <<f, tt>> \in {ft \in {<<f, tt>> : f \in Placements(Len(people)),
                                tt \in [1..MaxGroups -> MeetingTimes \cup {None}]} :
            \A g \in 1..MaxGroups :
                IF g > GroupCount(ft[1]) THEN ft[2][g] = None
                ELSE ft[2][g] = None \/
                     \A i \in 1..Len(people) : ft[1][i] = g => Covers(people[i], ft[2][g])}}

run_scheduling(people) == OptimizerOutcomes(people)

RECURSIVE Flatten(_)
Flatten(solution) ==
    IF solution = <<>> THEN <<>> ELSE Head(solution).people \o Flatten(Tail(solution))

RECURSIVE HomeGroups(_, _)
HomeGroups(solution, g) ==
    IF solution = <<>> THEN <<>>
    ELSE [i \in 1..Len(Head(solution).people) |-> g] \o HomeGroups(Tail(solution), g + 1)

\* cohort_scheduler.balance_groups: moves people between the groups (the list
\* is changed in place), each moved person into a group whose time lies inside
\* that person's availability, no group left empty; returns the people moved.
balance_groups(solution) ==
    LET placed == Flatten(solution)
        home == HomeGroups(solution, 1)
    IN  {[groups |-> [g \in 1..Len(solution) |->
                        [people |-> Members(placed, to, g),
                         selected_time |-> solution[g].selected_time]],
          moves |-> Cardinality({i \in 1..Len(placed) : to[i] # home[i]})] :
            to \in {t \in [1..Len(placed) -> 1..Len(solution)] :
                      /\ \A g \in 1..Len(solution) : \E i \in 1..Len(placed) : t[i] = g
                      /\ \A i \in 1..Len(placed) :
                            t[i] # home[i] =>
                                \/ solution[t[i]].selected_time = None
                                \/ Covers(placed[i], solution[t[i]].selected_time)}}

-----------------------------------------------------------------------------
(* schedule_people *)

PersonIds == {"p1", "p2"}
InputOrder == <<"p1", "p2">>
CourseLists == {<<>>, <<"a">>, <<"b">>, <<"a", "b">>, <<"b", "a">>}

\* The availabilities the people of a pass are given: one confirmed interval
\* over the whole horizon, confirmed unit intervals, or a confirmed first unit
\* followed by one if-needed interval.
UnitIntervals(h) == [i \in 1..h |-> <<i - 1, i>>]

AvailabilityMenu ==
    {[intervals |-> <<<<0, Horizon>>>>, if_needed_intervals |-> <<>>],
     [intervals |-> UnitIntervals(Horizon), if_needed_intervals |-> <<>>],
     [intervals |-> <<<<0, 1>>>>, if_needed_intervals |-> <<<<1, Horizon>>>>]}

FacilitatorChoices == SUBSET PersonIds

\* Mutant: the people are handed to the optimizer as they are in the bucket.
AdjustedPeopleUnblocked(people, assigned) == people

\* adjusted_people: the blocker applied to every person of the bucket
AdjustedPeople(people, assigned) ==
    [i \in 1..Len(people) |->
        remove_blocked_intervals(people[i], assigned[people[i].id])]

\* Mutant: only the first member of a group gets the time recorded.
TrackPeopleFirstOnly(assigned, people, time) ==
    IF people = <<>> THEN assigned
    ELSE [assigned EXCEPT ![Head(people).id] = Append(@, time)]

\* Mutant: the time of a group is recorded for every person of the pass.
TrackPeopleOfAnyone(assigned, people, time) ==
    [id \in DOMAIN assigned |-> Append(assigned[id], time)]

\* the loop "for person in group.people" of the tracking step
RECURSIVE TrackPeople(_, _, _)
TrackPeople(assigned, people, time) ==
    IF people = <<>> THEN assigned
    ELSE TrackPeople([assigned EXCEPT ![Head(people).id] = Append(@, time)],
                     Tail(people), time)

\* the loop "for group in solution" of the tracking step
RECURSIVE TrackGroups(_, _)
TrackGroups(assigned, solution) ==
    IF solution = <<>> THEN assigned
    ELSE TrackGroups(
            IF Head(solution).selected_time # None
            THEN TrackPeople(assigned, Head(solution).people, Head(solution).selected_time)
            ELSE assigned,
            Tail(solution))

AssignedIds(solution) == {p.id : p \in Range(Flatten(solution))}

\* Mutant: the whole bucket is reported unassigned.
UnassignedWholeBucket(people, solution) == people

\* unassigned = [p for p in people if p.id not in assigned_ids], or people
Unassigned(people, solution) ==
    IF solution # <<>>
    THEN SelectSeq(people, LAMBDA p : p.id \notin AssignedIds(solution))
    ELSE people

\* Mutant: the number of groups is added instead of the score.
AddScoreAsCohorts(total, solution, score) ==
    IF solution # <<>> THEN total + Len(solution) ELSE total

\* total_scheduled += score, in the branch "if solution"
AddScore(total, solution, score) ==
    IF solution # <<>> THEN total + score ELSE total

\* total_cohorts += len(solution), in the branch "if solution"
AddCohorts(total, solution) ==
    IF solution # <<>> THEN total + Len(solution) ELSE total

CourseSchedulingResult(course_name, solution, score, unassigned) ==
    [course_name |-> course_name, groups |-> solution, score |-> score,
     unassigned |-> unassigned]

InLoop == pc = "loop" /\ course_pos <= Len(people_by_course)

\* {p.id for p in people if p.id in facilitator_ids}
CourseFacilitatorIds(people) == {p.id : p \in Range(people)} \cap facilitator_ids

\* Mutant: no course is too small.
NotEnoughPeopleNever(people, minimum) == FALSE

\* if len(people) < min_people
NotEnoughPeople(people, minimum) == Len(people) < minimum

\* Mutant: a course is scheduled whether it has a facilitator or not.
NoCourseFacilitatorNever(people) == FALSE

\* if facilitator_ids: ... if not course_facilitator_ids
NoCourseFacilitator(people) ==
    facilitator_ids # {} /\ CourseFacilitatorIds(people) = {}

\* Mutant: one group is enough for the balancer to be called.
BalancerInvokedForOneGroup(requested, solution) ==
    requested /\ solution # <<>> /\ Len(solution) >= 1

\* if balance and solution and len(solution) >= 2
BalancerInvoked(requested, solution) ==
    requested /\ solution # <<>> /\ Len(solution) >= 2

\* what is noted of a call of the optimizer, for the properties: the people
\* and facilitator ids it was given, how it ended, the groups it found,
\* whether the balancer was called after it and the moves that one made
OptimizerCall(course_name, people, ids, outcome, found, balanced, moves) ==
    [course_name |-> course_name, people |-> people, facilitator_ids |-> ids,
     outcome |-> outcome, groups_found |-> found, balanced |-> balanced,
     moves |-> moves]

InitPass ==
    /\ \E av \in [1..Len(InputOrder) -> AvailabilityMenu] :
       \E cs \in [1..Len(InputOrder) -> CourseLists] :
            all_people = [i \in 1..Len(InputOrder) |-> MkPerson(InputOrder[i], av[i], cs[i])]
    /\ min_people \in 1..MaxMinPeople
    /\ balance \in BOOLEAN
    /\ facilitator_ids \in FacilitatorChoices
    /\ people_by_course = group_people_by_course(all_people)
    /\ course_pos = 1
    /\ assigned_times = [id \in PersonIds |-> <<>>]
    /\ course_results = <<>>
    /\ total_scheduled = 0 /\ total_cohorts = 0 /\ total_balance_moves = 0
    /\ optimizer_calls = <<>>
    /\ pc = "loop"
    /\ raised = "" /\ pass_result = None
    /\ BlockerIdle /\ ScheduleIdle
    /\ CohortIdle /\ OverlapIdle

passParams == <<all_people, min_people, balance, facilitator_ids, people_by_course>>

\* lines 244-252: not enough people for this course
TooFewPeople ==
    /\ InLoop
    /\ LET bucket == people_by_course[course_pos] IN
        /\ NotEnoughPeople(bucket.people, min_people)
        /\ course_results' = Append(course_results,
                CourseSchedulingResult(bucket.course_name, <<>>, 0, bucket.people))
    /\ course_pos' = course_pos + 1
    /\ UNCHANGED <<passParams, assigned_times, total_scheduled, total_cohorts,
                   total_balance_moves, optimizer_calls, pc, raised, pass_result,
                   notPassVars>>

\* lines 254-266: facilitator mode and no facilitator in this course
NoFacilitator ==
    /\ InLoop
    /\ LET bucket == people_by_course[course_pos] IN
        /\ ~NotEnoughPeople(bucket.people, min_people)
        /\ NoCourseFacilitator(bucket.people)
        /\ course_results' = Append(course_results,
                CourseSchedulingResult(bucket.course_name, <<>>, 0, bucket.people))
    /\ course_pos' = course_pos + 1
    /\ UNCHANGED <<passParams, assigned_times, total_scheduled, total_cohorts,
                   total_balance_moves, optimizer_calls, pc, raised, pass_result,
                   notPassVars>>

\* lines 268-321: block, optimize, balance, track, record
ScheduleCourse ==
    /\ InLoop
    /\ LET bucket == people_by_course[course_pos]
           people == bucket.people
           adjusted_people == AdjustedPeople(people, assigned_times)
       IN
        /\ ~NotEnoughPeople(people, min_people)
        /\ ~NoCourseFacilitator(people)
        /\ \E out \in run_scheduling(adjusted_people) :
           \E bal \in (IF BalancerInvoked(balance, out.groups)
                       THEN balance_groups(out.groups)
                       ELSE {[groups |-> out.groups, moves |-> 0]}) :
            LET solution == bal.groups IN
            /\ total_balance_moves' = total_balance_moves + bal.moves
            /\ assigned_times' = TrackGroups(assigned_times, solution)
            /\ total_scheduled' = AddScore(total_scheduled, solution, out.score)
            /\ total_cohorts' = AddCohorts(total_cohorts, solution)
            /\ course_results' = Append(course_results,
                    CourseSchedulingResult(bucket.course_name, solution, out.score,
                                           Unassigned(people, solution)))
            /\ optimizer_calls' = Append(optimizer_calls,
                    OptimizerCall(bucket.course_name, adjusted_people,
                                  CourseFacilitatorIds(people), "ok", Len(out.groups),
                                  BalancerInvoked(balance, out.groups), bal.moves))
    /\ course_pos' = course_pos + 1
    /\ UNCHANGED <<passParams, pc, raised, pass_result, notPassVars>>

MultiCourseSchedulingResult(results, scheduled, cohorts, moves, people) ==
    [course_results |-> results, total_scheduled |-> scheduled,
     total_cohorts |-> cohorts, total_balance_moves |-> moves,
     total_people |-> Len(people)]

\* what the locals of the pass would make as an aggregate result
ResultSoFar ==
    MultiCourseSchedulingResult(course_results, total_scheduled, total_cohorts,
                                total_balance_moves, all_people)

\* lines 323-329: the aggregate result is returned
ReturnResult ==
    /\ pc = "loop" /\ course_pos > Len(people_by_course)
    /\ pc' = "returned"
    /\ pass_result' = Returned(ResultSoFar)
    /\ UNCHANGED <<passParams, course_pos, assigned_times, course_results,
                   total_scheduled, total_cohorts, total_balance_moves,
                   optimizer_calls, raised, notPassVars>>

\* Mutant: the failure is caught and the courses done so far are returned.
FailureSwallowed(error, so_far) ==
    [pc |-> "returned", raised |-> "", pass_result |-> Returned(so_far)]

\* lines 279-295 have no try/except: an exception of run_scheduling or of
\* balance_groups leaves schedule_people, which returns nothing
FailurePropagates(error, so_far) ==
    [pc |-> "raised", raised |-> error, pass_result |-> None]

\* the pass ends by an exception of a collaborator
FailsWith(error, bucket, adjusted_people, found) ==
    LET end == FailurePropagates(error, ResultSoFar)
    IN  /\ pc' = end.pc /\ raised' = end.raised /\ pass_result' = end.pass_result
        /\ optimizer_calls' = Append(optimizer_calls,
                OptimizerCall(bucket.course_name, adjusted_people,
                              CourseFacilitatorIds(bucket.people), error, found,
                              error = "balancer", 0))
        /\ UNCHANGED <<passParams, course_pos, assigned_times, course_results,
                       total_scheduled, total_cohorts, total_balance_moves,
                       notPassVars>>

\* line 280: run_scheduling raises
OptimizerRaises ==
    /\ InLoop
    /\ LET bucket == people_by_course[course_pos] IN
        /\ ~NotEnoughPeople(bucket.people, min_people)
        /\ ~NoCourseFacilitator(bucket.people)
        /\ FailsWith("optimizer", bucket,
                     AdjustedPeople(bucket.people, assigned_times), 0)

\* lines 293-295: the optimizer gave two or more groups, balance_groups raises
BalancerRaises ==
    /\ InLoop
    /\ LET bucket == people_by_course[course_pos]
           adjusted_people == AdjustedPeople(bucket.people, assigned_times)
       IN
        /\ ~NotEnoughPeople(bucket.people, min_people)
        /\ ~NoCourseFacilitator(bucket.people)
        /\ \E out \in run_scheduling(adjusted_people) :
              /\ BalancerInvoked(balance, out.groups)
              /\ FailsWith("balancer", bucket, adjusted_people, Len(out.groups))

Next ==
    \/ TooFewPeople \/ NoFacilitator \/ ScheduleCourse \/ ReturnResult
    \/ OptimizerRaises \/ BalancerRaises

Spec == InitPass /\ [][Next]_vars

-----------------------------------------------------------------------------
(* schedule: load the people, check them, run schedule_people *)

\* longest population get_people_for_scheduling hands over
MaxLoaded == 2

\* all_people as loaded: no more than MaxLoaded different people, each with
\* the whole horizon as availability and any of the course lists
LoadedPopulations ==
    UNION {{[i \in 1..Len(ids) |->
                MkPerson(ids[i],
                         [intervals |-> <<<<0, Horizon>>>>, if_needed_intervals |-> <<>>],
                         cs[ids[i]])] :
              cs \in [PersonIds -> CourseLists]} :
           ids \in {q \in SeqsUpTo(PersonIds, MaxLoaded) :
                        \A i, j \in 1..Len(q) : i # j => q[i] # q[j]}}

\* user_data: user id -> stored data, of which is_facilitator is read
LoadedUserData == [PersonIds -> [is_facilitator : BOOLEAN]]

\* Mutant: an empty population goes on to schedule_people.
NoPeopleLoadedNever(people) == FALSE

\* if not all_people
NoPeopleLoaded(people) == people = <<>>

\* {user_id for user_id, data in user_data.items() if data.get("is_facilitator", False)}
MarkedFacilitators(data) == {id \in DOMAIN data : data[id].is_facilitator}

\* Mutant: the facilitators are asked for whatever the mode.
NoFacilitatorsMarkedAnyMode(mode, data) == MarkedFacilitators(data) = {}

\* if facilitator_mode: ... if not facilitator_ids
NoFacilitatorsMarked(mode, data) == mode /\ MarkedFacilitators(data) = {}

InitSchedule ==
    /\ BlockerIdle /\ CohortIdle /\ OverlapIdle
    /\ pc = "schedule"
    /\ all_people \in LoadedPopulations
    /\ loaded_user_data \in LoadedUserData
    /\ facilitator_mode \in BOOLEAN
    /\ min_people \in 1..MaxMinPeople
    /\ balance \in BOOLEAN
    /\ facilitator_ids = {}
    /\ people_by_course = <<>> /\ course_pos = 0
    /\ assigned_times = <<>> /\ course_results = <<>>
    /\ total_scheduled = 0 /\ total_cohorts = 0 /\ total_balance_moves = 0
    /\ optimizer_calls = <<>>
    /\ raised = "" /\ pass_result = None

\* the checks of schedule end it by an exception
ScheduleRaises(error) ==
    /\ pc' = "raised" /\ raised' = error
    /\ UNCHANGED <<passParams, course_pos, assigned_times, course_results,
                   total_scheduled, total_cohorts, total_balance_moves,
                   optimizer_calls, pass_result, notPassVars>>

\* lines 549-550
RaiseNoUsers ==
    /\ pc = "schedule"
    /\ NoPeopleLoaded(all_people)
    /\ ScheduleRaises("NoUsersError")

\* lines 552-560
RaiseNoFacilitators ==
    /\ pc = "schedule"
    /\ ~NoPeopleLoaded(all_people)
    /\ NoFacilitatorsMarked(facilitator_mode, loaded_user_data)
    /\ ScheduleRaises("NoFacilitatorsError")

\* lines 552-573, and the start of schedule_people (lines 230-241)
CallSchedulePeople ==
    /\ pc = "schedule"
    /\ ~NoPeopleLoaded(all_people)
    /\ ~NoFacilitatorsMarked(facilitator_mode, loaded_user_data)
    /\ facilitator_ids' = IF facilitator_mode
                          THEN MarkedFacilitators(loaded_user_data) ELSE {}
    /\ people_by_course' = group_people_by_course(all_people)
    /\ course_pos' = 1
    /\ assigned_times' = [id \in PersonIds |-> <<>>]
    /\ pc' = "loop"
    /\ UNCHANGED <<all_people, min_people, balance, course_results,
                   total_scheduled, total_cohorts, total_balance_moves,
                   optimizer_calls, raised, pass_result, notPassVars>>

NextSchedule == RaiseNoUsers \/ RaiseNoFacilitators \/ CallSchedulePeople \/ Next

SpecSchedule == InitSchedule /\ [][NextSchedule]_vars

-----------------------------------------------------------------------------
(* schedule_cohort: the tables *)

UserIds == {"u1", "u2", "u3"}
\* the order in which the joined query returns its rows
UserOrder == <<"u1", "u2", "u3">>
CohortIds == {"k1", "k2"}
\* a cohort id that get_cohort_by_id does not find
MissingCohort == "k0"
\* schedule_cohort calls made in one behaviour
MaxCalls == 2

\* users.discord_id
DiscordIdOf == ("u1" :> "d1") @@ ("u2" :> "d2") @@ ("u3" :> "d3")

\* What parse_interval_string yields for the stored availability_utc and
\* if_needed_availability_utc of a user: nothing, one confirmed meeting slot,
\* or one if-needed meeting slot.
NoAvailability == [intervals |-> <<>>, if_needed_intervals |-> <<>>]
StoredAvailabilities ==
    {NoAvailability,
     [intervals |-> <<<<0, MeetingLength>>>>, if_needed_intervals |-> <<>>],
     [intervals |-> <<>>, if_needed_intervals |-> <<<<0, MeetingLength>>>>]}

\* Who is enrolled where: one courses_users row per user and cohort enrolled
\* in. Everybody in one cohort and the other cohort empty, or the users
\* spread over the two cohorts with one of them in both.
EnrolmentChoices ==
    {[u \in UserIds |-> {"k1"}],
     ("u1" :> {"k1", "k2"}) @@ ("u2" :> {"k1"}) @@ ("u3" :> {"k2"})}

\* courses_users.cohort_role of the users
RoleChoices ==
    {[u \in UserIds |-> "participant"],
     [u \in UserIds |-> IF u = "u1" THEN "facilitator" ELSE "participant"],
     [u \in UserIds |-> IF u = "u3" THEN "participant" ELSE "facilitator"]}

AwaitingGrouping == "awaiting_grouping"
Grouped == "grouped"
Ungroupable == "ungroupable"

\* the transaction of one call: rows inserted and statements issued, not yet
\* visible to anyone else
EmptyTransaction == [groups |-> <<>>, groups_users |-> <<>>, updates |-> <<>>]

NoCall ==
    [pc |-> "idle", cohort_id |-> "", user_rows |-> <<>>, people |-> <<>>,
     user_id_map |-> <<>>, facilitator_ids |-> {}, solution |-> <<>>,
     group_pos |-> 0, member_pos |-> 0, group_record |-> <<>>,
     created_groups |-> <<>>, grouped_user_ids |-> {},
     transaction |-> EmptyTransaction, result |-> None,
     \* bookkeeping of the call, for the properties
     optimizer_invoked |-> FALSE, statements |-> 0, error |-> "",
     tables_before |-> <<>>]

\* select ... join courses_users ... where cohort_id = X and
\* grouping_status = 'awaiting_grouping'
RECURSIVE SelectAwaiting(_, _)
SelectAwaiting(order, cohort_id) ==
    IF order = <<>> THEN <<>>
    ELSE LET u == Head(order)
             key == <<u, cohort_id>>
         IN  (IF key \in DOMAIN courses_users
                 /\ courses_users[key].grouping_status = AwaitingGrouping
              THEN <<[user_id |-> u,
                      discord_id |-> users[u].discord_id,
                      availability_utc |-> users[u].availability_utc,
                      if_needed_availability_utc |-> users[u].if_needed_availability_utc,
                      cohort_role |-> courses_users[key].cohort_role]>>
              ELSE <<>>)
             \o SelectAwaiting(Tail(order), cohort_id)

\* if not intervals and not if_needed: continue
HasNoAvailability(row) ==
    row.availability_utc = <<>> /\ row.if_needed_availability_utc = <<>>

\* lines 389-416: the rows become Person objects, the id map and the
\* facilitator ids
RECURSIVE ConvertRows(_, _)
ConvertRows(rows, acc) ==
    IF rows = <<>> THEN acc
    ELSE LET row == Head(rows)
             mapped == [acc EXCEPT !.user_id_map = (row.discord_id :> row.user_id) @@ @]
         IN  ConvertRows(Tail(rows),
                IF HasNoAvailability(row) THEN mapped
                ELSE [mapped EXCEPT
                        !.people = Append(@, MkPerson(row.discord_id,
                                        [intervals |-> row.availability_utc,
                                         if_needed_intervals |-> row.if_needed_availability_utc],
                                        <<>>)),
                        !.facilitator_ids =
                            IF row.cohort_role = "facilitator"
                            THEN @ \cup {row.discord_id} ELSE @])

Converted(rows) ==
    ConvertRows(rows, [people |-> <<>>, user_id_map |-> <<>>, facilitator_ids |-> {}])

\* cohort_scheduler.format_time_range(*group.selected_time), or "TBD"
MeetingTime(group) ==
    IF group.selected_time # None
    THEN <<"range", group.selected_time[1], group.selected_time[2]>>
    ELSE <<"TBD">>

\* create_group(conn, cohort_id, group_name, recurring_meeting_time_utc):
\* one row of the groups table, with the next id of its sequence
create_group(group_id, cohort_id, group_name, meeting_time) ==
    [group_id |-> group_id, cohort_id |-> cohort_id, group_name |-> group_name,
     recurring_meeting_time_utc |-> meeting_time]

\* add_user_to_group(conn, group_id, user_id, role): one row of groups_users
add_user_to_group(group_id, user_id, role) ==
    [group_id |-> group_id, user_id |-> user_id, role |-> role]

\* Mutant: everybody is added as a participant.
MemberRoleAlwaysParticipant(person_id, ids) == "participant"

\* role = "facilitator" if person.id in facilitator_ids else "participant"
MemberRole(person_id, ids) ==
    IF person_id \in ids THEN "facilitator" ELSE "participant"

\* update(courses_users).where(cohort_id == X).where(user_id.in_(ids))
\*     .values(grouping_status=value)
UpdateStatement(cohort_id, ids, value) ==
    [cohort_id |-> cohort_id, user_ids |-> ids, grouping_status |-> value]

\* Mutant: the update forgets its cohort_id filter.
ApplyUpdateAnyCohort(table, stmt) ==
    [key \in DOMAIN table |->
        IF key[1] \in stmt.user_ids
        THEN [table[key] EXCEPT !.grouping_status = stmt.grouping_status]
        ELSE table[key]]

\* the rows an update statement changes
ApplyUpdate(table, stmt) ==
    [key \in DOMAIN table |->
        IF key[2] = stmt.cohort_id /\ key[1] \in stmt.user_ids
        THEN [table[key] EXCEPT !.grouping_status = stmt.grouping_status]
        ELSE table[key]]

RECURSIVE ApplyUpdates(_, _)
ApplyUpdates(table, stmts) ==
    IF stmts = <<>> THEN table
    ELSE ApplyUpdates(ApplyUpdate(table, Head(stmts)), Tail(stmts))

\* get_transaction(), left by an exception: nothing of the transaction stays
Rollback(transaction) == EmptyTransaction

\* Mutant: every loaded user is counted as ungroupable.
UngroupableUserIdsAll(rows, grouped_ids) ==
    [i \in 1..Len(rows) |-> rows[i].user_id]

\* all_user_ids and ungroupable_user_ids, lines 481-482
UngroupableUserIds(rows, grouped_ids) ==
    SelectSeq([i \in 1..Len(rows) |-> rows[i].user_id], LAMBDA uid : uid \notin grouped_ids)

CohortSchedulingResult(cohort_id, groups_created, users_grouped, users_ungroupable, created) ==
    [cohort_id |-> cohort_id, groups_created |-> groups_created,
     users_grouped |-> users_grouped, users_ungroupable |-> users_ungroupable,
     groups |-> created]

-----------------------------------------------------------------------------
(* schedule_cohort: the calls *)

\* Calls are made one after the other: the next one starts when the one
\* before has returned or raised.
CanStart ==
    /\ pc = "cohort"
    /\ call.pc \in {"idle", "returned", "raised"}
    /\ calls_started < MaxCalls

Begin(cohort_id) ==
    [NoCall EXCEPT !.cohort_id = cohort_id,
                   !.tables_before = <<courses_users, groups, groups_users>>]

\* Mutant: the query forgets its grouping_status filter.
RECURSIVE SelectAllOfCohort(_, _)
SelectAllOfCohort(order, cohort_id) ==
    IF order = <<>> THEN <<>>
    ELSE LET u == Head(order)
             key == <<u, cohort_id>>
         IN  (IF key \in DOMAIN courses_users
              THEN <<[user_id |-> u,
                      discord_id |-> users[u].discord_id,
                      availability_utc |-> users[u].availability_utc,
                      if_needed_availability_utc |-> users[u].if_needed_availability_utc,
                      cohort_role |-> courses_users[key].cohort_role]>>
              ELSE <<>>)
             \o SelectAllOfCohort(Tail(order), cohort_id)

\* Mutant: the query takes the ungroupable users of the cohort as well.
RECURSIVE SelectNotGrouped(_, _)
SelectNotGrouped(order, cohort_id) ==
    IF order = <<>> THEN <<>>
    ELSE LET u == Head(order)
             key == <<u, cohort_id>>
         IN  (IF key \in DOMAIN courses_users
                 /\ courses_users[key].grouping_status # Grouped
              THEN <<[user_id |-> u,
                      discord_id |-> users[u].discord_id,
                      availability_utc |-> users[u].availability_utc,
                      if_needed_availability_utc |-> users[u].if_needed_availability_utc,
                      cohort_role |-> courses_users[key].cohort_role]>>
              ELSE <<>>)
             \o SelectNotGrouped(Tail(order), cohort_id)

\* lines 361-377
LoadUserRows(order, cohort_id) == SelectAwaiting(order, cohort_id)

\* Mutant: the users are marked in the table as soon as they are loaded.
TransactionAfterLoadMarksUsers(cohort_id, rows) ==
    [EmptyTransaction EXCEPT !.updates =
        <<UpdateStatement(cohort_id, {rows[i].user_id : i \in 1..Len(rows)},
                          Ungroupable)>>]

\* lines 356-426 read only: when the optimizer is called the transaction has
\* issued no insert and no update
TransactionAfterLoad(cohort_id, rows) == EmptyTransaction

\* Mutant: the call goes on with nobody to schedule.
NothingToScheduleNever(people) == FALSE

\* if not people
NothingToSchedule(people) == people = <<>>

\* Mutant: what the transaction did stays when an exception leaves the block.
ExitOnExceptionKeepingWork(c, error) ==
    [NoCall EXCEPT !.pc = "raised", !.error = error, !.cohort_id = c.cohort_id,
                   !.user_rows = c.user_rows, !.tables_before = c.tables_before,
                   !.optimizer_invoked = c.optimizer_invoked,
                   !.statements = c.statements,
                   !.transaction = c.transaction]

\* An exception leaves the "async with get_transaction()" block: the
\* transaction is rolled back and the exception goes on to the caller, so
\* the call has no result and its locals are gone.
ExitOnException(c, error) ==
    [NoCall EXCEPT !.pc = "raised", !.error = error, !.cohort_id = c.cohort_id,
                   !.user_rows = c.user_rows, !.tables_before = c.tables_before,
                   !.optimizer_invoked = c.optimizer_invoked,
                   !.statements = c.statements,
                   !.transaction = Rollback(c.transaction)]

\* A return leaves the block: the call has its result.
ExitOnReturn(c, result) ==
    [c EXCEPT !.pc = "returned", !.result = Returned(result),
              !.group_pos = 0, !.member_pos = 0, !.group_record = <<>>]

\* Mutant: a transaction for a cohort that already has groups leaves nothing.
LeaveBlockFirstWriterWins(c) ==
    IF \E i \in 1..Len(groups) : groups[i].cohort_id = c.cohort_id
    THEN UNCHANGED <<groups, groups_users, courses_users>>
    ELSE /\ groups' = groups \o c.transaction.groups
         /\ groups_users' = groups_users \o c.transaction.groups_users
         /\ courses_users' = ApplyUpdates(courses_users, c.transaction.updates)

\* The block is left: what is in the transaction of the call becomes visible.
LeaveBlock(c) ==
    /\ groups' = groups \o c.transaction.groups
    /\ groups_users' = groups_users \o c.transaction.groups_users
    /\ courses_users' = ApplyUpdates(courses_users, c.transaction.updates)

\* the tables and the passes are not touched by the step
CallStep ==
    UNCHANGED <<users, courses_users, groups, groups_users, other_call, notCohortVars>>

\* Mutant: the update of the grouped users is left out.
AfterPersistSkipsGrouped(c) ==
    IF UngroupableUserIds(c.user_rows, c.grouped_user_ids) # <<>>
    THEN "update_ungroupable" ELSE "return"

\* where the call goes once the groups are persisted (lines 480-498)
AfterPersist(c) ==
    IF c.grouped_user_ids # {} THEN "update_grouped"
    ELSE IF UngroupableUserIds(c.user_rows, c.grouped_user_ids) # <<>>
         THEN "update_ungroupable"
         ELSE "return"

\* Mutant: the update of the ungroupable users is left out.
AfterUpdateGroupedSkipsUngroupable(c) == "return"

AfterUpdateGrouped(c) ==
    IF UngroupableUserIds(c.user_rows, c.grouped_user_ids) # <<>>
    THEN "update_ungroupable" ELSE "return"

\* the group the loop of line 450 is at
CurrentGroup(c) == c.solution[c.group_pos]

\* lines 473-478, then the next group or the end of the loop
CloseGroup(c) ==
    LET closed == [c EXCEPT
            !.created_groups = Append(@,
                [group_id |-> c.group_record.group_id,
                 group_name |-> c.group_record.group_name,
                 member_count |-> Len(CurrentGroup(c).people),
                 meeting_time |-> c.group_record.recurring_meeting_time_utc]),
            !.group_pos = @ + 1, !.member_pos = 0]
    IN  IF closed.group_pos > Len(c.solution)
        THEN [closed EXCEPT !.pc = AfterPersist(closed)]
        ELSE closed

InitCohort ==
    /\ BlockerIdle /\ PassIdle /\ OverlapIdle /\ ScheduleIdle
    /\ pc = "cohort"
    /\ \E av \in [UserIds -> StoredAvailabilities] :
          users = [u \in UserIds |->
                      [discord_id |-> DiscordIdOf[u],
                       availability_utc |-> av[u].intervals,
                       if_needed_availability_utc |-> av[u].if_needed_intervals]]
    /\ \E enrolled \in EnrolmentChoices, role \in RoleChoices :
          courses_users =
              [key \in {k \in UserIds \X CohortIds : k[2] \in enrolled[k[1]]} |->
                  [cohort_role |-> role[key[1]], grouping_status |-> AwaitingGrouping]]
    /\ groups = <<>> /\ groups_users = <<>> /\ next_group_id = 0
    /\ call = NoCall /\ calls_started = 0 /\ other_call = NoCall

\* lines 356-358
CohortNotFound ==
    /\ CanStart
    /\ LET c == ExitOnException(Begin(MissingCohort), "not_found")
       IN  call' = c /\ LeaveBlock(c)
    /\ calls_started' = calls_started + 1
    /\ UNCHANGED <<users, next_group_id, other_call, notCohortVars>>

\* lines 379-387
ReturnNoUsers ==
    /\ CanStart
    /\ \E cohort_id \in CohortIds :
          /\ LoadUserRows(UserOrder, cohort_id) = <<>>
          /\ LET c == ExitOnReturn(Begin(cohort_id),
                        CohortSchedulingResult(cohort_id, 0, 0, 0, <<>>))
             IN  call' = c /\ LeaveBlock(c)
    /\ calls_started' = calls_started + 1
    /\ UNCHANGED <<users, next_group_id, other_call, notCohortVars>>

\* lines 389-426
ReturnNoAvailability ==
    /\ CanStart
    /\ \E cohort_id \in CohortIds :
          LET user_rows == LoadUserRows(UserOrder, cohort_id)
              conv == Converted(user_rows)
          IN  /\ user_rows # <<>>
              /\ NothingToSchedule(conv.people)
              /\ LET c == ExitOnReturn([Begin(cohort_id) EXCEPT
                                            !.user_rows = user_rows,
                                            !.user_id_map = conv.user_id_map],
                            CohortSchedulingResult(cohort_id, 0, 0, Len(user_rows), <<>>))
                 IN  call' = c /\ LeaveBlock(c)
    /\ calls_started' = calls_started + 1
    /\ UNCHANGED <<users, next_group_id, other_call, notCohortVars>>

\* lines 356-426 when there is somebody to schedule
LoadPeople ==
    /\ CanStart
    /\ \E cohort_id \in CohortIds :
          LET user_rows == LoadUserRows(UserOrder, cohort_id)
              conv == Converted(user_rows)
          IN  /\ user_rows # <<>>
              /\ ~NothingToSchedule(conv.people)
              /\ call' = [Begin(cohort_id) EXCEPT
                            !.pc = "scheduling",
                            !.user_rows = user_rows,
                            !.people = conv.people,
                            !.user_id_map = conv.user_id_map,
                            !.facilitator_ids = conv.facilitator_ids,
                            !.transaction = TransactionAfterLoad(cohort_id, user_rows)]
    /\ calls_started' = calls_started + 1
    /\ UNCHANGED next_group_id
    /\ CallStep

InCall(at) == pc = "cohort" /\ call.pc = at

\* lines 428-443: the optimizer, then the balancer if asked for
RunScheduling ==
    /\ InCall("scheduling")
    /\ \E outcome \in run_scheduling(call.people), do_balance \in BOOLEAN :
          \E balanced \in (IF do_balance /\ outcome.groups # <<>> /\ Len(outcome.groups) >= 2
                           THEN balance_groups(outcome.groups)
                           ELSE {[groups |-> outcome.groups, moves |-> 0]}) :
              LET c == [call EXCEPT !.solution = balanced.groups,
                                    !.optimizer_invoked = TRUE,
                                    !.group_pos = 1, !.member_pos = 0]
              IN  call' = IF c.solution # <<>>
                          THEN [c EXCEPT !.pc = "persist"]
                          ELSE [c EXCEPT !.pc = AfterPersist(c)]
    /\ UNCHANGED <<next_group_id, calls_started>>
    /\ CallStep

\* run_scheduling raises (line 430)
OptimizerFails ==
    /\ InCall("scheduling")
    /\ LET c == ExitOnException([call EXCEPT !.optimizer_invoked = TRUE], "optimizer")
       IN  call' = c /\ LeaveBlock(c)
    /\ UNCHANGED <<users, next_group_id, calls_started, other_call, notCohortVars>>

\* the task is cancelled while the optimizer runs. run_scheduling has no
\* await of its own (lines 181-196), so the CancelledError is raised at an
\* await that follows it (lines 458, 470, 485, 493) and leaves the block like
\* any exception
CancelledWhileOptimizing ==
    /\ pc = "cohort"
    /\ call.pc \in {"persist", "update_grouped", "update_ungroupable"}
    /\ call.optimizer_invoked
    /\ LET c == ExitOnException(call, "cancelled")
       IN  call' = c /\ LeaveBlock(c)
    /\ UNCHANGED <<users, next_group_id, calls_started, other_call, notCohortVars>>

\* lines 450-463
CreateGroup ==
    /\ InCall("persist")
    /\ call.member_pos = 0
    /\ LET row == create_group(next_group_id + 1, call.cohort_id,
                               <<"Group", call.group_pos>>,
                               MeetingTime(CurrentGroup(call)))
           c == [call EXCEPT !.group_record = row,
                             !.transaction.groups = Append(@, row),
                             !.statements = @ + 1,
                             !.member_pos = 1]
       IN  call' = IF CurrentGroup(call).people = <<>> THEN CloseGroup(c) ELSE c
    /\ next_group_id' = next_group_id + 1
    /\ UNCHANGED calls_started
    /\ CallStep

\* lines 466-471, and 473-478 after the last member
AddUserToGroup ==
    /\ InCall("persist")
    /\ call.member_pos >= 1
    /\ LET person == CurrentGroup(call).people[call.member_pos]
           known == person.id \in DOMAIN call.user_id_map
           user_id == call.user_id_map[person.id]
           added == IF known
                    THEN [call EXCEPT
                            !.transaction.groups_users = Append(@,
                                add_user_to_group(call.group_record.group_id, user_id,
                                    MemberRole(person.id, call.facilitator_ids))),
                            !.grouped_user_ids = @ \cup {user_id},
                            !.statements = @ + 1]
                    ELSE call
           c == [added EXCEPT !.member_pos = @ + 1]
       IN  call' = IF c.member_pos > Len(CurrentGroup(call).people)
                   THEN CloseGroup(c) ELSE c
    /\ UNCHANGED <<next_group_id, calls_started>>
    /\ CallStep

\* lines 484-490
UpdateGrouped ==
    /\ InCall("update_grouped")
    /\ call' = [call EXCEPT
                  !.transaction.updates = Append(@,
                      UpdateStatement(call.cohort_id, call.grouped_user_ids, Grouped)),
                  !.statements = @ + 1,
                  !.pc = AfterUpdateGrouped(call)]
    /\ UNCHANGED <<next_group_id, calls_started>>
    /\ CallStep

\* lines 492-498
UpdateUngroupable ==
    /\ InCall("update_ungroupable")
    /\ call' = [call EXCEPT
                  !.transaction.updates = Append(@,
                      UpdateStatement(call.cohort_id,
                          Range(UngroupableUserIds(call.user_rows, call.grouped_user_ids)),
                          Ungroupable)),
                  !.statements = @ + 1,
                  !.pc = "return"]
    /\ UNCHANGED <<next_group_id, calls_started>>
    /\ CallStep

\* lines 500-507
ReturnScheduled ==
    /\ InCall("return")
    /\ LET c == ExitOnReturn(call,
                    CohortSchedulingResult(call.cohort_id,
                        Len(call.created_groups),
                        Cardinality(call.grouped_user_ids),
                        Len(UngroupableUserIds(call.user_rows, call.grouped_user_ids)),
                        call.created_groups))
       IN  call' = c /\ LeaveBlock(c)
    /\ UNCHANGED <<users, next_group_id, calls_started, other_call, notCohortVars>>

\* create_group, add_user_to_group or a status update raises: the statement
\* the call is at does not happen
PersistenceFails ==
    /\ pc = "cohort"
    /\ call.pc \in {"persist", "update_grouped", "update_ungroupable"}
    /\ LET c == ExitOnException(call, "persistence")
       IN  call' = c /\ LeaveBlock(c)
    /\ UNCHANGED <<users, next_group_id, calls_started, other_call, notCohortVars>>

NextCohort ==
    \/ CohortNotFound \/ ReturnNoUsers \/ ReturnNoAvailability \/ LoadPeople
    \/ RunScheduling \/ OptimizerFails \/ CancelledWhileOptimizing
    \/ CreateGroup \/ AddUserToGroup \/ UpdateGrouped \/ UpdateUngroupable
    \/ ReturnScheduled \/ PersistenceFails

SpecCohort == InitCohort /\ [][NextCohort]_vars

-----------------------------------------------------------------------------
(* schedule_cohort: two calls at once *)

\* Two coroutines call schedule_cohort on one event loop. call is the one
\* that runs, other_call the one that waits at an await; every statement of
\* the model ends at an await (a query, the optimizer, an insert, an update),
\* so the loop may go over to the other call after each of them. Nothing in
\* schedule_cohort keeps the second call from starting while the first is
\* under way.
Finished(c) == c.pc \in {"returned", "raised"}

\* the calls that are made at once
ConcurrentCalls == 2

\* the stored availability of the users: everybody has a slot, or the two
\* users of the second cohort have none
ConcurrentAvailabilities ==
    {[u \in UserIds |-> [intervals |-> <<<<0, MeetingLength>>>>, if_needed_intervals |-> <<>>]],
     [u \in UserIds |-> IF u = "u2"
                        THEN [intervals |-> <<<<0, MeetingLength>>>>, if_needed_intervals |-> <<>>]
                        ELSE NoAvailability]}

\* u1 and u2 are enrolled in the first cohort, u1 and u3 in the second
ConcurrentEnrolment == ("u1" :> {"k1", "k2"}) @@ ("u2" :> {"k1"}) @@ ("u3" :> {"k2"})

InitConcurrent ==
    /\ BlockerIdle /\ PassIdle /\ OverlapIdle /\ ScheduleIdle
    /\ pc = "cohort"
    /\ \E av \in ConcurrentAvailabilities :
          users = [u \in UserIds |->
                      [discord_id |-> DiscordIdOf[u],
                       availability_utc |-> av[u].intervals,
                       if_needed_availability_utc |-> av[u].if_needed_intervals]]
    /\ courses_users =
          [key \in {k \in UserIds \X CohortIds : k[2] \in ConcurrentEnrolment[k[1]]} |->
              [cohort_role |-> "participant", grouping_status |-> AwaitingGrouping]]
    /\ groups = <<>> /\ groups_users = <<>> /\ next_group_id = 0
    /\ call = NoCall /\ other_call = NoCall
    \* the calls made before have returned and are counted
    /\ calls_started = MaxCalls - ConcurrentCalls

\* the event loop goes over to the other coroutine
SwitchCall ==
    /\ pc = "cohort"
    /\ call.pc # "idle"
    /\ ~Finished(other_call)
    /\ call' = other_call
    /\ other_call' = call
    /\ UNCHANGED <<users, courses_users, groups, groups_users, next_group_id,
                   calls_started, notCohortVars>>

NextConcurrent == NextCohort \/ SwitchCall

SpecConcurrent == InitConcurrent /\ [][NextConcurrent]_vars

-----------------------------------------------------------------------------
(* find_availability_overlap (src/core/cohorts.py) *)

MemberIds == {"m1", "m2"}
\* longest member_ids list
MaxMembers == 3

DayNames == {"Monday", "Tuesday"}

\* A slot string "HH:MM" is held as <<HH, MM>>.
NineOClock == <<9, 0>>
HalfPastNine == <<9, 30>>
TenOClock == <<10, 0>>

\* int(slot.split(":")[0])
SlotHour(slot) == slot[1]

\* The day -> slot-list dicts a user may have stored, as lists of items in
\* the order of the dict.
AvailabilityDicts ==
    {<<>>,
     <<[day |-> "Monday", slots |-> <<NineOClock>>]>>,
     <<[day |-> "Monday", slots |-> <<TenOClock>>]>>,
     <<[day |-> "Monday", slots |-> <<NineOClock, HalfPastNine, TenOClock>>]>>,
     <<[day |-> "Tuesday", slots |-> <<NineOClock>>],
       [day |-> "Monday", slots |-> <<TenOClock>>]>>}

\* What get_user_data_fn gives for a member: a dict, held with the set of its
\* keys ({} for a user without stored data).
UserDataChoices ==
    {[keys |-> {}, availability |-> <<>>, if_needed |-> <<>>],
     [keys |-> {"name"}, availability |-> <<>>, if_needed |-> <<>>]}
    \cup {[keys |-> {"name", "availability"}, availability |-> a, if_needed |-> <<>>] :
            a \in AvailabilityDicts}
    \cup {[keys |-> {"name", "availability", "if_needed"},
           availability |-> a, if_needed |-> n] :
            a \in AvailabilityDicts, n \in AvailabilityDicts}

\* user_data.get(key, {})
GetOrEmpty(user_data, key) ==
    IF key \in user_data.keys
    THEN (IF key = "availability" THEN user_data.availability ELSE user_data.if_needed)
    ELSE <<>>

\* all_available / all_if_needed: a dict (day, hour) -> list of user ids, held
\* as the list of its items in insertion order
HasKey(slot_map, key) == \E i \in 1..Len(slot_map) : slot_map[i].key = key

\* if key not in d: d[key] = []; d[key].append(member_id)
AppendMember(slot_map, key, member_id) ==
    IF HasKey(slot_map, key)
    THEN [i \in 1..Len(slot_map) |->
            IF slot_map[i].key = key
            THEN [slot_map[i] EXCEPT !.user_ids = Append(@, member_id)]
            ELSE slot_map[i]]
    ELSE Append(slot_map, [key |-> key, user_ids |-> <<member_id>>])

\* for slot in slots
RECURSIVE AddSlots(_, _, _, _)
AddSlots(slot_map, day, slots, member_id) ==
    IF slots = <<>> THEN slot_map
    ELSE AddSlots(AppendMember(slot_map, <<day, SlotHour(Head(slots))>>, member_id),
                  day, Tail(slots), member_id)

\* for day, slots in availability.items()
RECURSIVE AddDays(_, _, _)
AddDays(slot_map, items, member_id) ==
    IF items = <<>> THEN slot_map
    ELSE AddDays(AddSlots(slot_map, Head(items).day, Head(items).slots, member_id),
                 Tail(items), member_id)

\* lines 31-56: the loop over member_ids
RECURSIVE CollectAvailability(_, _, _)
CollectAvailability(ids, data, acc) ==
    IF ids = <<>> THEN acc
    ELSE LET member_id == Head(ids)
             user_data == data[member_id]
         IN  CollectAvailability(Tail(ids), data,
                IF user_data.keys = {} THEN acc
                ELSE [all_available |->
                         AddDays(acc.all_available,
                                 GetOrEmpty(user_data, "availability"), member_id),
                      all_if_needed |->
                         AddDays(acc.all_if_needed,
                                 GetOrEmpty(user_data, "if_needed"), member_id)])

\* all_available.get((day, hour), [])
UserIdsAt(slot_map, key) ==
    IF HasKey(slot_map, key)
    THEN Range(slot_map[CHOOSE i \in 1..Len(slot_map) : slot_map[i].key = key].user_ids)
    ELSE {}

KeysOf(slot_map) == {slot_map[i].key : i \in 1..Len(slot_map)}

\* Mutant: the first pass finds nothing.
FirstPassNeverMatches(user_ids, member_id_set) == FALSE

\* if set(user_ids) == member_id_set
FirstPassMatches(user_ids, member_id_set) == Range(user_ids) = member_id_set

\* Mutant: the second pass takes a slot that only some of the members have.
SecondPassMatchesSome(combined, member_id_set) ==
    combined # {} /\ combined \subseteq member_id_set

\* if combined == member_id_set
SecondPassMatches(combined, member_id_set) == combined = member_id_set

\* first pass: the first item of all_available, in insertion order, that matches
FirstPass(all_available, member_id_set) ==
    LET hits == {i \in 1..Len(all_available) :
                    FirstPassMatches(all_available[i].user_ids, member_id_set)}
    IN  IF hits = {} THEN None
        ELSE all_available[CHOOSE i \in hits : \A j \in hits : i <= j].key

\* second pass: the keys of the union that match; the union is a set, so
\* which of them comes first is not fixed
SecondPassHits(found, member_id_set) ==
    {key \in KeysOf(found.all_available) \cup KeysOf(found.all_if_needed) :
        SecondPassMatches(UserIdsAt(found.all_available, key)
                            \cup UserIdsAt(found.all_if_needed, key),
                          member_id_set)}

\* what the call may return: (day, hour) or None
find_availability_overlap(ids, data) ==
    LET found == CollectAvailability(ids, data,
                    [all_available |-> <<>>, all_if_needed |-> <<>>])
        member_id_set == Range(ids)
        first == FirstPass(found.all_available, member_id_set)
    IN  IF first # None THEN {first}
        ELSE IF SecondPassHits(found, member_id_set) # {}
             THEN SecondPassHits(found, member_id_set)
             ELSE {None}

InitOverlap ==
    /\ BlockerIdle /\ PassIdle /\ CohortIdle /\ ScheduleIdle
    /\ pc = "overlap"
    /\ member_ids \in SeqsUpTo(MemberIds, MaxMembers)
    /\ stored_user_data \in [MemberIds -> UserDataChoices]
    /\ overlap = None

FindOverlapCall ==
    /\ pc = "overlap"
    /\ overlap = None
    /\ \E result \in find_availability_overlap(member_ids, stored_user_data) :
          overlap' = Returned(result)
    /\ UNCHANGED <<member_ids, stored_user_data, notOverlapVars>>

NextOverlap == FindOverlapCall

SpecOverlap == InitOverlap /\ [][NextOverlap]_vars

-----------------------------------------------------------------------------
(* SpecGrouper: group_people_by_course over every bounded input *)

GrouperIds == {"p1", "p2", "p3", "p4"}
\* longest list of people handed to the grouper
MaxPeople == 3

\* Person.courses: the ids picked in the course menu, each at most once; a
\* course may carry the reserved name.
GrouperCourseLists ==
    {<<>>, <<"a">>, <<"b">>, <<"a", "b">>, <<"b", "a">>,
     <<Uncategorized>>, <<"a", Uncategorized>>}

\* lists of different people
DistinctSeqs(S, n) ==
    {q \in SeqsUpTo(S, n) : \A i, j \in 1..Len(q) : i # j => q[i] # q[j]}

InitGrouper ==
    /\ BlockerIdle /\ CohortIdle /\ OverlapIdle /\ ScheduleIdle
    /\ pc = "grouper"
    /\ \E ids \in DistinctSeqs(GrouperIds, MaxPeople) :
       \E cs \in [GrouperIds -> GrouperCourseLists] :
            all_people = [i \in 1..Len(ids) |-> MkPerson(ids[i], NoAvailability, cs[ids[i]])]
    /\ people_by_course = <<>> /\ course_pos = 0
    /\ min_people = 0 /\ balance = FALSE /\ facilitator_ids = {}
    /\ assigned_times = <<>> /\ course_results = <<>>
    /\ total_scheduled = 0 /\ total_cohorts = 0 /\ total_balance_moves = 0
    /\ optimizer_calls = <<>>
    /\ raised = "" /\ pass_result = None

GroupPeopleCall ==
    /\ pc = "grouper"
    /\ people_by_course' = group_people_by_course(all_people)
    /\ pc' = "grouped"
    /\ UNCHANGED <<all_people, min_people, balance, facilitator_ids, course_pos,
                   assigned_times, course_results, total_scheduled, total_cohorts,
                   total_balance_moves, optimizer_calls, raised, pass_result,
                   notPassVars>>

NextGrouper == GroupPeopleCall

SpecGrouper == InitGrouper /\ [][NextGrouper]_vars

-----------------------------------------------------------------------------
(* Claims about schedule_people *)

Returned_ == pc = "returned"

\* Position of a course in the processing order.
CoursePos(course_name) == BucketOf(people_by_course, course_name)

\* The (course result index, group index) pairs that hold a group with a time
\* of which the person is a member.
TimedGroupsOf(id) ==
    {rg \in {<<r, g>> : r \in 1..Len(course_results), g \in 1..MaxGroups} :
        /\ rg[2] <= Len(course_results[rg[1]].groups)
        /\ course_results[rg[1]].groups[rg[2]].selected_time # None
        /\ \E p \in Range(course_results[rg[1]].groups[rg[2]].people) : p.id = id}

GroupAt(rg) == course_results[rg[1]].groups[rg[2]]

\* C1: after a pass over all courses no person is a member of two groups of
\* different courses whose selected_time intervals conflict, whatever the order
\* of the courses and whatever the optimizer chose inside the availability it
\* was handed.
C1_NoCrossCourseConflict ==
    Returned_ =>
        \A id \in PersonIds :
            \A x \in TimedGroupsOf(id) : \A y \in TimedGroupsOf(id) :
                x[1] # y[1] =>
                    ~Conflict(GroupAt(x).selected_time, GroupAt(y).selected_time)

\* C1 witness: a pass has ended with one person placed, with a time, in groups
\* of two courses, the later course having lost an interval to the blocker.
C1_Witness ==
    /\ Returned_
    /\ \E id \in PersonIds :
        \E x \in TimedGroupsOf(id) : \E y \in TimedGroupsOf(id) :
            /\ x[1] < y[1]
            /\ \E p \in Range(people_by_course[CoursePos(course_results[y[1]].course_name)].people) :
                 /\ p.id = id
                 /\ \E iv \in Range(p.intervals) \cup Range(p.if_needed_intervals) :
                        Conflict(iv, GroupAt(x).selected_time)

\* C2: once a person is in a group with time T of course A, the Person handed
\* to the optimizer for every course processed after A has no interval, among
\* intervals and if_needed_intervals, that conflicts with T.
C2_SequentialBlocking ==
    \A id \in PersonIds :
        \A x \in TimedGroupsOf(id) :
            \A c \in 1..Len(optimizer_calls) :
                CoursePos(optimizer_calls[c].course_name)
                        > CoursePos(course_results[x[1]].course_name) =>
                    \A p \in Range(optimizer_calls[c].people) :
                        p.id = id =>
                            \A iv \in Range(p.intervals) \cup Range(p.if_needed_intervals) :
                                ~Conflict(iv, GroupAt(x).selected_time)

\* C2 witness: the optimizer was called for a later course with a person who
\* had been given a time before, and the person it got had lost an interval.
C2_Witness ==
    \E id \in PersonIds :
        \E x \in TimedGroupsOf(id) :
            \E c \in 1..Len(optimizer_calls) :
                /\ CoursePos(optimizer_calls[c].course_name)
                        > CoursePos(course_results[x[1]].course_name)
                /\ \E i \in 1..Len(optimizer_calls[c].people) :
                    /\ optimizer_calls[c].people[i].id = id
                    /\ optimizer_calls[c].people[i] #
                         people_by_course[CoursePos(optimizer_calls[c].course_name)].people[i]

RECURSIVE MemberCount(_)
MemberCount(solution) ==
    IF solution = <<>> THEN 0 ELSE Len(Head(solution).people) + MemberCount(Tail(solution))

\* C3: in the returned result every course has an entry, and the people in
\* its solution plus its unassigned people are as many as its bucket, whether
\* the course was short-circuited, got no solution or got solution.
C3_NobodyLostOrDuplicated ==
    Returned_ =>
        /\ Len(course_results) = Len(people_by_course)
        /\ \A r \in 1..Len(course_results) :
            /\ course_results[r].course_name = people_by_course[r].course_name
            /\ MemberCount(course_results[r].groups) + Len(course_results[r].unassigned)
                    = Len(people_by_course[r].people)

\* C3 witness: a returned result with a course that has a group and an
\* unassigned person, and a course without groups.
C3_Witness ==
    /\ Returned_
    /\ \E r \in 1..Len(course_results) :
            course_results[r].groups # <<>> /\ course_results[r].unassigned # <<>>
    /\ \E r \in 1..Len(course_results) : course_results[r].groups = <<>>

RECURSIVE SumScores(_)
SumScores(results) ==
    IF results = <<>> THEN 0 ELSE Head(results).score + SumScores(Tail(results))

\* C4: in the returned result total_scheduled is the sum of the scores of all
\* course results, short-circuited courses and courses without groups included.
C4_TotalScheduledIsSumOfScores ==
    Returned_ => total_scheduled = SumScores(course_results)

\* C4 witness: a returned result with two courses that placed people and one
\* course with score 0.
C4_Witness ==
    /\ Returned_
    /\ \E r \in 1..Len(course_results) : \E q \in 1..Len(course_results) :
            r # q /\ course_results[r].score > 0 /\ course_results[q].score > 0
    /\ \E r \in 1..Len(course_results) : course_results[r].score = 0

InPass == pc \in {"loop", "returned", "raised"}
BucketIds(r) == {people_by_course[r].people[i].id : i \in 1..Len(people_by_course[r].people)}
CallsFor(r) ==
    {c \in 1..Len(optimizer_calls) :
        optimizer_calls[c].course_name = people_by_course[r].course_name}
\* the course has fewer than min_people people
TooSmall(r) == Len(people_by_course[r].people) < min_people
\* facilitator mode, and nobody of the course is a facilitator
WithoutFacilitator(r) == facilitator_ids # {} /\ BucketIds(r) \cap facilitator_ids = {}
\* what is seen of a short-circuited course: no call of the optimizer (and so
\* none of the balancer), and once its turn is over a result without groups,
\* with score 0 and the whole bucket unassigned
SeenShortCircuited(r) ==
    /\ CallsFor(r) = {}
    /\ r <= Len(course_results) =>
          /\ course_results[r].course_name = people_by_course[r].course_name
          /\ course_results[r].groups = <<>>
          /\ course_results[r].score = 0
          /\ course_results[r].unassigned = people_by_course[r].people
\* the step that handles the course records no blocked interval, adds nothing
\* to the totals, raises nothing and goes on to the next course
StepsOverCourse ==
    /\ assigned_times' = assigned_times
    /\ optimizer_calls' = optimizer_calls
    /\ total_scheduled' = total_scheduled /\ total_cohorts' = total_cohorts
    /\ total_balance_moves' = total_balance_moves
    /\ pc' = "loop" /\ raised' = "" /\ pass_result' = None
    /\ course_pos' = course_pos + 1
    /\ Len(course_results') = Len(course_results) + 1

\* C22: in schedule_people a course whose bucket has fewer than min_people
\* people is short-circuited: neither optimizer nor balancer is invoked for
\* it, no blocked interval is recorded for its members, its result has no
\* groups, score 0 and the whole bucket as unassigned, and the pass goes on
\* with the next course without raising.
C22_TooSmallCourseShortCircuited ==
    /\ [](InPass => \A r \in 1..Len(people_by_course) :
                        TooSmall(r) => SeenShortCircuited(r))
    /\ [][(InLoop /\ TooSmall(course_pos)) => StepsOverCourse]_vars

\* The pass has returned: its first course was too small, and a later course
\* in which a member of the small one is enrolled got a group with a time.
C22_Witness ==
    /\ Returned_
    /\ Len(people_by_course) >= 2
    /\ TooSmall(1) /\ people_by_course[1].people # <<>>
    /\ \E r \in 2..Len(course_results) :
          \E g \in 1..Len(course_results[r].groups) :
              /\ course_results[r].groups[g].selected_time # None
              /\ \E p \in Range(course_results[r].groups[g].people) : p.id \in BucketIds(1)

\* C23: in schedule_people with a non-empty facilitator_ids set, a course of
\* at least min_people people with no facilitator among them is
\* short-circuited like a too-small course (no optimizer call, no groups,
\* score 0, everyone unassigned, no blocked interval recorded, no exception);
\* for a course with a facilitator the optimizer is passed the facilitator
\* ids of that course's own bucket and no others.
C23_CourseWithoutFacilitatorShortCircuited ==
    /\ [](InPass => \A r \in 1..Len(people_by_course) :
                        /\ (~TooSmall(r) /\ WithoutFacilitator(r)) => SeenShortCircuited(r)
                        /\ facilitator_ids # {} =>
                              \A c \in CallsFor(r) :
                                  /\ optimizer_calls[c].facilitator_ids
                                        = BucketIds(r) \cap facilitator_ids
                                  /\ optimizer_calls[c].facilitator_ids # {})
    /\ [][(InLoop /\ ~TooSmall(course_pos) /\ WithoutFacilitator(course_pos))
             => StepsOverCourse]_vars

\* The pass has returned: a course with enough people had no facilitator and
\* was stepped over, another course was scheduled with its facilitator.
C23_Witness ==
    /\ Returned_
    /\ \E r \in 1..Len(people_by_course) :
          ~TooSmall(r) /\ WithoutFacilitator(r) /\ Len(people_by_course[r].people) >= 1
    /\ \E r \in 1..Len(people_by_course) :
          /\ CallsFor(r) # {}
          /\ course_results[r].groups # <<>>

\* the selected times of the groups a person was placed in by the courses
\* processed before the one at position pos
EarlierTimes(id, pos) ==
    {GroupAt(rg).selected_time : rg \in {x \in TimedGroupsOf(id) : x[1] < pos}}
\* the intervals of a list that conflict with none of the times, in order
WithoutConflict(ivs, times) ==
    SelectSeq(ivs, LAMBDA iv : \A t \in times : ~Conflict(iv, t))
\* the person of the bucket as the blocked times of the earlier courses leave it
ExpectedPerson(person, pos) ==
    [person EXCEPT
        !.intervals = WithoutConflict(person.intervals, EarlierTimes(person.id, pos)),
        !.if_needed_intervals =
            WithoutConflict(person.if_needed_intervals, EarlierTimes(person.id, pos))]

\* C25: for each course of a schedule_people pass the availability handed to
\* the optimizer for a person is that person's original availability without
\* exactly those intervals that conflict with a selected_time of a group the
\* person was placed in by a course processed earlier in the pass. Later
\* courses, groups without selected_time, short-circuited courses and other
\* people's groups remove nothing; for the first processed course everybody's
\* availability is unchanged.
C25_BlockedByEarlierCoursesOnly ==
    InPass =>
        \A c \in 1..Len(optimizer_calls) :
            LET pos == CoursePos(optimizer_calls[c].course_name)
                bucket == people_by_course[pos].people
                handed == optimizer_calls[c].people
            IN  /\ Len(handed) = Len(bucket)
                /\ \A i \in 1..Len(bucket) : handed[i] = ExpectedPerson(bucket[i], pos)
                /\ (c = 1 \/ pos = 1) => handed = bucket

\* The optimizer was called for a later course with two people: one had been
\* given a time by an earlier course and has lost the interval that conflicts
\* with it and kept another, the other has all intervals, among them one that
\* conflicts with the first person's time.
C25_Witness ==
    \E c \in 1..Len(optimizer_calls) :
        LET pos == CoursePos(optimizer_calls[c].course_name)
            bucket == people_by_course[pos].people
            handed == optimizer_calls[c].people
        IN  \E i, j \in 1..Len(bucket) :
                /\ i # j
                /\ handed[i] # bucket[i]
                /\ handed[i].intervals # <<>>
                /\ handed[j] = bucket[j]
                /\ \E iv \in Range(bucket[j].intervals) :
                      \E t \in EarlierTimes(bucket[i].id, pos) : Conflict(iv, t)

RECURSIVE SumMoves(_)
SumMoves(calls) ==
    IF calls = <<>> THEN 0 ELSE Head(calls).moves + SumMoves(Tail(calls))
\* the ids of the members of the groups of a course result
PlacedIds(r) ==
    UNION {{p.id : p \in Range(course_results[r].groups[g].people)} :
              g \in 1..Len(course_results[r].groups)}
UnassignedIds(r) == {p.id : p \in Range(course_results[r].unassigned)}

\* C26: in schedule_people the balancer is invoked for a course if and only
\* if balance is requested and the optimizer produced at least two groups for
\* that course; total_balance_moves is the sum of the move counts those
\* invocations returned (0 when balance is false); the blocked intervals and
\* the unassigned people are those of the group memberships as they are after
\* balancing, which are the groups of the course result.
C26_BalancerOnlyForTwoGroups ==
    InPass =>
        /\ \A c \in 1..Len(optimizer_calls) :
              /\ optimizer_calls[c].balanced <=>
                    (balance /\ optimizer_calls[c].groups_found >= 2)
              /\ ~optimizer_calls[c].balanced => optimizer_calls[c].moves = 0
        /\ total_balance_moves = SumMoves(optimizer_calls)
        /\ ~balance => total_balance_moves = 0
        /\ \A id \in PersonIds :
              /\ Range(assigned_times[id])
                    = {GroupAt(x).selected_time : x \in TimedGroupsOf(id)}
              /\ Len(assigned_times[id]) = Cardinality(TimedGroupsOf(id))
        /\ \A r \in 1..Len(course_results) :
              course_results[r].groups # <<>> =>
                  UnassignedIds(r) = BucketIds(r) \ PlacedIds(r)

\* The pass has returned: the balancer moved somebody in one course, was not
\* called for another course that got a single group, and a person has a
\* blocked interval from a balanced course.
C26_Witness ==
    /\ Returned_ /\ balance
    /\ total_balance_moves >= 1
    /\ \E c \in 1..Len(optimizer_calls) :
          optimizer_calls[c].balanced /\ optimizer_calls[c].moves >= 1
    /\ \E c \in 1..Len(optimizer_calls) :
          ~optimizer_calls[c].balanced /\ optimizer_calls[c].groups_found = 1
    /\ \E id \in PersonIds : assigned_times[id] # <<>>

\* The call has returned: argument person, blocked list and returned Person.
BlockerReturned == pc = "blocker" /\ rb_result # None

\* The intervals of a list that conflict with no blocked interval (4.1).
Unblocked(ivs, blocked) ==
    {iv \in Range(ivs) : ~\E b \in Range(blocked) : iv[1] < b[2] /\ b[1] < iv[2]}

\* C9: remove_blocked_intervals keeps an interval (s,e) of intervals, and of
\* if_needed_intervals, if and only if no blocked interval (bs,be) has s < be
\* and bs < e; an interval that only touches a blocked one is kept (once).
C9_KeepsExactlyUnblocked ==
    BlockerReturned =>
        LET out == rb_result[1] IN
        /\ Range(out.intervals) = Unblocked(rb_person.intervals, rb_blocked)
        /\ Range(out.if_needed_intervals) =
                Unblocked(rb_person.if_needed_intervals, rb_blocked)
        /\ Len(out.intervals) = Cardinality(Range(out.intervals))
        /\ Len(out.if_needed_intervals) = Cardinality(Range(out.if_needed_intervals))

\* C9 witness: one interval is removed while another, which touches a blocked
\* interval at an endpoint, is kept.
C9_Witness ==
    /\ BlockerReturned
    /\ \E iv \in Range(rb_person.intervals) : iv \notin Range(rb_result[1].intervals)
    /\ \E iv \in Range(rb_result[1].intervals) :
           \E b \in Range(rb_blocked) : iv[2] = b[1] \/ b[2] = iv[1]

\* A list of intervals is sorted and its intervals are disjoint.
SortedDisjoint(ivs) ==
    \A i \in 1..Len(ivs) : \A j \in 1..Len(ivs) : i < j => ivs[i][2] <= ivs[j][1]

MutuallyDisjoint(person) ==
    \A a \in Range(person.intervals) :
        \A b \in Range(person.if_needed_intervals) : ~Conflict(a, b)

WellFormed(person) ==
    /\ SortedDisjoint(person.intervals)
    /\ SortedDisjoint(person.if_needed_intervals)
    /\ MutuallyDisjoint(person)

\* C10: for a Person with sorted, disjoint lists the returned Person has no more
\* available minutes than the input, and its lists are still sorted, internally
\* disjoint and mutually disjoint.
C10_NoMoreMinutesStillSorted ==
    (BlockerReturned /\ WellFormed(rb_person)) =>
        /\ calculate_total_available_time(rb_result[1])
               <= calculate_total_available_time(rb_person)
        /\ WellFormed(rb_result[1])

\* C10 witness: minutes were lost and two intervals of one list survive.
C10_Witness ==
    /\ BlockerReturned /\ WellFormed(rb_person)
    /\ calculate_total_available_time(rb_result[1])
           < calculate_total_available_time(rb_person)
    /\ Len(rb_result[1].intervals) >= 2

\* C11: called with an empty blocked list, remove_blocked_intervals returns a
\* Person whose intervals and if_needed_intervals are those of the input,
\* element for element and in the same order.
C11_EmptyBlockedListChangesNothing ==
    (BlockerReturned /\ rb_blocked = <<>>) =>
        /\ rb_result[1].intervals = rb_person.intervals
        /\ rb_result[1].if_needed_intervals = rb_person.if_needed_intervals

\* A call with an empty blocked list on a Person that has confirmed and
\* if-needed intervals.
C11_Witness ==
    /\ BlockerReturned /\ rb_blocked = <<>>
    /\ Len(rb_person.intervals) >= 1
    /\ Len(rb_person.if_needed_intervals) >= 1

\* C12: remove_blocked_intervals never modifies the Person it is given and
\* returns a new Person for every blocked list: after the call the argument
\* object holds what it held, and the object returned is another one.
C12_NewPersonForEveryBlockedList ==
    BlockerReturned =>
        /\ rb_objects[ArgumentRef] = rb_person
        /\ rb_result_ref # ArgumentRef

\* sub is full with some of its elements left out
RECURSIVE IsSubsequence(_, _)
IsSubsequence(sub, full) ==
    IF sub = <<>> THEN TRUE
    ELSE IF full = <<>> THEN FALSE
    ELSE IF Head(sub) = Head(full) THEN IsSubsequence(Tail(sub), Tail(full))
    ELSE IsSubsequence(sub, Tail(full))

\* the interval conflicts with a blocked time and has minutes outside it
PartlyBlocked(iv, blocked) ==
    \E b \in Range(blocked) : Conflict(iv, b) /\ (iv[1] < b[1] \/ b[2] < iv[2])
Inside(a, b) == b[1] <= a[1] /\ a[2] <= b[2]

\* C30: remove_blocked_intervals removes whole intervals and never splits or
\* trims one. Each interval list of the result is a subsequence of the same
\* list of the input, and an interval that only partly overlaps a blocked
\* time is dropped entirely: nothing of it, not even its minutes outside the
\* blocked time, is in the result.
C30_WholeIntervalsOnly ==
    BlockerReturned =>
        LET out == rb_result[1] IN
        /\ IsSubsequence(out.intervals, rb_person.intervals)
        /\ IsSubsequence(out.if_needed_intervals, rb_person.if_needed_intervals)
        /\ \A iv \in Range(rb_person.intervals) \cup Range(rb_person.if_needed_intervals) :
              PartlyBlocked(iv, rb_blocked) =>
                  \A kept \in Range(out.intervals) \cup Range(out.if_needed_intervals) :
                      ~Inside(kept, iv)

\* An interval with minutes no blocked time covers was dropped, and another
\* interval of the same list was kept.
C30_Witness ==
    /\ BlockerReturned
    /\ \E iv \in Range(rb_person.intervals) :
          /\ PartlyBlocked(iv, rb_blocked)
          /\ \A b \in Range(rb_blocked) : ~Inside(iv, b)
          /\ iv \notin Range(rb_result[1].intervals)
    /\ rb_result[1].intervals # <<>>
    /\ calculate_total_available_time(rb_result[1])
          < calculate_total_available_time(rb_person)

\* the optimizer calls of the pass in which a collaborator failed
FailedCalls == {c \in 1..Len(optimizer_calls) : optimizer_calls[c].outcome # "ok"}

\* C18: when the optimizer or the balancer fails while a course is being
\* scheduled, schedule_people ends by that failure and returns no aggregate
\* result: the caller gets neither the groups of the failed course nor the
\* course results built before it.
C18_CollaboratorFailurePropagates ==
    (pc \in {"loop", "returned", "raised"} /\ FailedCalls # {}) =>
        /\ pc = "raised"
        /\ raised \in {"optimizer", "balancer"}
        /\ \A c \in FailedCalls : optimizer_calls[c].outcome = raised
        /\ pass_result = None

\* The balancer failed on the second course, after the first course had been
\* given a group.
C18_Witness ==
    /\ pc = "raised" /\ raised = "balancer"
    /\ Len(course_results) >= 1
    /\ \E r \in 1..Len(course_results) : course_results[r].groups # <<>>

-----------------------------------------------------------------------------
(* Claims about schedule *)

ScheduleChecked == pc \in {"loop", "returned", "raised"}
\* the bucket of the r-th course result
BucketOfResult(r) == people_by_course[r]
HasFacilitator(bucket) ==
    \E i \in 1..Len(bucket.people) :
        bucket.people[i].id \in MarkedFacilitators(loaded_user_data)

\* C16: schedule raises NoUsersError when the loaded population is empty,
\* before any course is scheduled, and for no other population, whatever the
\* sizes of the course buckets.
C16_NoUsersErrorIffNobodyLoaded ==
    /\ ScheduleChecked => (raised = "NoUsersError" <=> all_people = <<>>)
    /\ raised = "NoUsersError" =>
          /\ pc = "raised" /\ pass_result = None
          /\ people_by_course = <<>> /\ course_results = <<>>
          /\ optimizer_calls = <<>>

\* Nobody is loaded, in facilitator mode with nobody marked: NoUsersError.
C16_Witness ==
    /\ pc = "raised" /\ raised = "NoUsersError"
    /\ facilitator_mode /\ MarkedFacilitators(loaded_user_data) = {}

\* C17: schedule raises NoFacilitatorsError exactly when the population is
\* not empty, facilitator_mode is requested and no loaded user is marked
\* facilitator; a course bucket without a facilitator does not raise it and
\* has a course result without groups.
C17_NoFacilitatorsErrorIffNoneMarked ==
    /\ ScheduleChecked =>
          (raised = "NoFacilitatorsError" <=>
              /\ all_people # <<>>
              /\ facilitator_mode
              /\ MarkedFacilitators(loaded_user_data) = {})
    /\ raised = "NoFacilitatorsError" => pc = "raised" /\ pass_result = None
    /\ (pc \in {"loop", "returned"} /\ facilitator_mode) =>
          \A r \in 1..Len(course_results) :
              ~HasFacilitator(BucketOfResult(r)) =>
                  /\ course_results[r].course_name = BucketOfResult(r).course_name
                  /\ course_results[r].groups = <<>>
                  /\ course_results[r].score = 0

\* A pass in facilitator mode has returned: one course had enough people but
\* no facilitator, another course was given a group.
C17_Witness ==
    /\ pc = "returned" /\ facilitator_mode /\ raised = ""
    /\ \E r \in 1..Len(course_results) :
          /\ ~HasFacilitator(BucketOfResult(r))
          /\ Len(BucketOfResult(r).people) >= min_people
    /\ \E r \in 1..Len(course_results) : course_results[r].groups # <<>>

-----------------------------------------------------------------------------
(* Claims about schedule_cohort *)

InCohortCall == pc = "cohort" /\ call.pc # "idle"
TablesBefore == [courses_users |-> call.tables_before[1],
                 groups |-> call.tables_before[2],
                 groups_users |-> call.tables_before[3]]
LoadedUserIds == {call.user_rows[i].user_id : i \in 1..Len(call.user_rows)}
StatusOf(user_id) == courses_users[<<user_id, call.cohort_id>>].grouping_status
UserOfDiscordId(discord_id) == CHOOSE u \in UserIds : DiscordIdOf[u] = discord_id
CallResult == call.result[1]

\* C5: schedule_cohort persistence is all-or-nothing. When create_group,
\* add_user_to_group or one of the two status updates has failed, the call
\* has raised (it has no result), the groups and groups_users tables hold
\* exactly the rows they held before the call, so no row created by the call
\* is visible, and every user the call loaded still has grouping_status
\* awaiting_grouping.
C5_PersistenceAllOrNothing ==
    (InCohortCall /\ call.error = "persistence") =>
        /\ call.pc = "raised"
        /\ call.result = None
        /\ groups = TablesBefore.groups
        /\ groups_users = TablesBefore.groups_users
        /\ \A u \in LoadedUserIds : StatusOf(u) = AwaitingGrouping

\* The update of the ungroupable users failed after a group row, a membership
\* row and the update of the grouped users had gone through.
C5_Witness ==
    /\ InCohortCall /\ call.error = "persistence"
    /\ call.statements >= 3
    /\ next_group_id > Len(groups)
    /\ Len(call.user_rows) >= 2

AwaitingBefore ==
    {u \in UserIds :
        /\ <<u, call.cohort_id>> \in DOMAIN TablesBefore.courses_users
        /\ TablesBefore.courses_users[<<u, call.cohort_id>>].grouping_status
               = AwaitingGrouping}
HasStoredAvailability(u) ==
    users[u].availability_utc # <<>> \/ users[u].if_needed_availability_utc # <<>>
GroupIdOf(g) == call.created_groups[g].group_id
MembersOf(g) ==
    {UserOfDiscordId(call.solution[g].people[m].id) :
        m \in 1..Len(call.solution[g].people)}
PlacedUsers == UNION {MembersOf(g) : g \in 1..Len(call.solution)}
RowsWhere(table, Test(_)) == {i \in 1..Len(table) : Test(table[i])}

\* C6: when schedule_cohort commits and at least one loaded user has
\* availability, each produced group has exactly one group row, each member
\* of a group has exactly one membership row in that group, with role
\* facilitator if the member's cohort_role is facilitator and participant
\* otherwise, every placed user has grouping_status grouped and every other
\* loaded user has grouping_status ungroupable.
C6_CommitPostconditions ==
    (/\ InCohortCall /\ call.pc = "returned"
     /\ \E u \in AwaitingBefore : HasStoredAvailability(u)) =>
        /\ Len(call.created_groups) = Len(call.solution)
        /\ \A g \in 1..Len(call.solution) :
            /\ Cardinality(RowsWhere(groups,
                   LAMBDA row : row.group_id = GroupIdOf(g))) = 1
            /\ \A h \in 1..Len(call.solution) : h # g => GroupIdOf(h) # GroupIdOf(g)
            /\ Cardinality(RowsWhere(groups_users,
                   LAMBDA row : row.group_id = GroupIdOf(g)))
                   = Len(call.solution[g].people)
            /\ \A u \in MembersOf(g) :
                LET rows == RowsWhere(groups_users,
                                LAMBDA row : row.group_id = GroupIdOf(g) /\ row.user_id = u)
                IN  /\ Cardinality(rows) = 1
                    /\ \A i \in rows :
                          groups_users[i].role =
                              IF courses_users[<<u, call.cohort_id>>].cohort_role = "facilitator"
                              THEN "facilitator" ELSE "participant"
        /\ \A u \in AwaitingBefore :
              StatusOf(u) = IF u \in PlacedUsers THEN Grouped ELSE Ungroupable

\* A committed call with a group of a facilitator and a participant, and a
\* third loaded user who was skipped for having no availability.
C6_Witness ==
    /\ InCohortCall /\ call.pc = "returned"
    /\ Len(call.user_rows) = 3 /\ Len(call.people) = 2
    /\ \E g \in 1..Len(call.solution) :
          /\ Len(call.solution[g].people) = 2
          /\ \E i, j \in RowsWhere(groups_users, LAMBDA row : row.group_id = GroupIdOf(g)) :
                groups_users[i].role = "facilitator" /\ groups_users[j].role = "participant"
    /\ \E u \in AwaitingBefore : ~HasStoredAvailability(u) /\ StatusOf(u) = Ungroupable

\* C7: a schedule_cohort call on a cohort whose awaiting_grouping users all
\* have empty availability, or that has no awaiting_grouping user, returns
\* groups_created = 0, invokes neither the optimizer nor any insert or
\* update, and leaves every row of the tables as it was.
C7_NothingToScheduleTouchesNothing ==
    (/\ InCohortCall /\ call.cohort_id \in CohortIds
     /\ \A u \in AwaitingBefore : ~HasStoredAvailability(u)) =>
        /\ call.pc = "returned"
        /\ CallResult.groups_created = 0
        /\ ~call.optimizer_invoked
        /\ call.statements = 0
        /\ courses_users = TablesBefore.courses_users
        /\ groups = TablesBefore.groups
        /\ groups_users = TablesBefore.groups_users

\* A call that loaded two or more awaiting_grouping users, none with
\* availability: it reports them ungroupable and they are still awaiting.
C7_Witness ==
    /\ InCohortCall /\ call.pc = "returned"
    /\ Len(call.user_rows) >= 2
    /\ \A u \in AwaitingBefore : ~HasStoredAvailability(u)
    /\ CallResult.users_ungroupable = Len(call.user_rows)
    /\ \A u \in LoadedUserIds : StatusOf(u) = AwaitingGrouping

Matched(stmt) ==
    {key \in DOMAIN courses_users :
        key[2] = stmt.cohort_id /\ key[1] \in stmt.user_ids}

\* C8: over serialized schedule_cohort calls, the grouping_status of a
\* courses_users row changes only from awaiting_grouping to grouped or from
\* awaiting_grouping to ungroupable, and the update statements a call commits
\* match only rows that are awaiting_grouping: a grouped or ungroupable row
\* is not modified again.
C8_StatusOnlyLeavesAwaiting ==
    [][pc = "cohort" =>
        /\ \A key \in DOMAIN courses_users :
              courses_users'[key].grouping_status # courses_users[key].grouping_status =>
                  /\ courses_users[key].grouping_status = AwaitingGrouping
                  /\ courses_users'[key].grouping_status \in {Grouped, Ungroupable}
        /\ (call.pc = "return" /\ call'.pc = "returned") =>
              \A i \in 1..Len(call.transaction.updates) :
                  \A key \in Matched(call.transaction.updates[i]) :
                      courses_users[key].grouping_status = AwaitingGrouping]_vars

\* The second call has committed groups for a cohort while rows of the other
\* cohort, settled by the first call, are grouped and ungroupable.
C8_Witness ==
    /\ InCohortCall /\ call.pc = "returned"
    /\ calls_started = MaxCalls
    /\ call.grouped_user_ids # {}
    /\ \E key \in DOMAIN courses_users :
          /\ key[2] # call.cohort_id
          /\ courses_users[key].grouping_status = Grouped
          /\ key[1] \in LoadedUserIds
    /\ \E key \in DOMAIN courses_users :
          courses_users[key].grouping_status = Ungroupable

CohortCallReturned == InCohortCall /\ call.pc = "returned"

\* C27: on every return path of schedule_cohort users_grouped +
\* users_ungroupable is the number of users loaded as awaiting_grouping for
\* the cohort, and groups_created is the length of the returned groups list.
C27_SummaryCountsAddUp ==
    CohortCallReturned =>
        /\ CallResult.users_grouped + CallResult.users_ungroupable
              = Len(call.user_rows)
        /\ Len(call.user_rows) = Cardinality(AwaitingBefore)
        /\ CallResult.groups_created = Len(CallResult.groups)

\* A call has committed with a user grouped, a user ungroupable and a group.
C27_Witness ==
    /\ CohortCallReturned
    /\ CallResult.users_grouped >= 1 /\ CallResult.users_ungroupable >= 1
    /\ CallResult.groups_created >= 1
    /\ Len(call.user_rows) = 3

\* the courses_users rows the call has set to a status: they did not have it
\* before the call and have it now
RowsSetTo(status) ==
    {key \in DOMAIN courses_users :
        /\ TablesBefore.courses_users[key].grouping_status # status
        /\ courses_users[key].grouping_status = status}

\* C28 (as amended): when schedule_cohort returns after a pass in which a
\* loaded user had availability, users_grouped is the number of
\* courses_users rows the call set to grouped and users_ungroupable the
\* number it set to ungroupable. When it returns because none of the loaded
\* users has availability, it reports all of them as users_ungroupable and
\* sets no row: they stay awaiting_grouping.
C28_SummaryAgreesAfterAPass ==
    CohortCallReturned =>
        /\ CallResult.users_grouped = Cardinality(RowsSetTo(Grouped))
        /\ call.people # <<>> =>
              CallResult.users_ungroupable = Cardinality(RowsSetTo(Ungroupable))
        /\ call.people = <<>> =>
              /\ RowsSetTo(Ungroupable) = {}
              /\ CallResult.users_ungroupable = Len(call.user_rows)
              /\ \A u \in LoadedUserIds : StatusOf(u) = AwaitingGrouping

\* A call has committed a pass: users it reports as grouped and as
\* ungroupable have these statuses in the table.
C28_Witness ==
    /\ CohortCallReturned /\ call.people # <<>>
    /\ CallResult.users_grouped >= 1 /\ CallResult.users_ungroupable >= 1
    /\ Cardinality(RowsSetTo(Grouped)) >= 1
    /\ Cardinality(RowsSetTo(Ungroupable)) >= 1

\* C28 as stated: on every return path users_grouped is the number of rows
\* the call set to grouped and users_ungroupable the number of rows it set to
\* ungroupable.
C28_SummaryAgreesOnEveryReturn ==
    CohortCallReturned =>
        /\ CallResult.users_grouped = Cardinality(RowsSetTo(Grouped))
        /\ CallResult.users_ungroupable = Cardinality(RowsSetTo(Ungroupable))

\* the pass of call c went through and its transaction was committed
PassCommitted(c) == c.pc = "returned" /\ c.people # <<>>

\* the loaded users call c left in no persisted group
LeftUnassigned(c) ==
    {c.user_rows[i].user_id : i \in 1..Len(c.user_rows)}
        \ (IF PassCommitted(c) THEN c.grouped_user_ids ELSE {})

\* the step starts a call for the cohort of the call that ended before it
StartsCallForSameCohort(before, after) ==
    /\ pc = "cohort"
    /\ before.pc \in {"returned", "raised"}
    /\ calls_started' = calls_started + 1
    /\ after.cohort_id = before.cohort_id

UsersLoadedIn(c) == {c.user_rows[i].user_id : i \in 1..Len(c.user_rows)}

\* C21 (as amended): a user the earlier call for the cohort left in no
\* persisted group is loaded again by the next call for that cohort exactly
\* when the earlier call changed no status: it raised and was rolled back, or
\* it returned because nobody had availability. After a committed pass the
\* unassigned users are ungroupable and the next call does not load them.
C21_UnassignedLoadedAgainUnlessMarked ==
    [][StartsCallForSameCohort(call, call') =>
          IF PassCommitted(call)
          THEN LeftUnassigned(call) \cap UsersLoadedIn(call') = {}
          ELSE LeftUnassigned(call) \subseteq UsersLoadedIn(call')]_vars

\* A call for a cohort is under way or over, and a user an earlier committed
\* pass left without a group, who is ungroupable since, is not among its rows.
C21_Witness ==
    /\ InCohortCall /\ call.cohort_id \in CohortIds
    /\ \E u \in UserIds :
          /\ <<u, call.cohort_id>> \in DOMAIN courses_users
          /\ TablesBefore.courses_users[<<u, call.cohort_id>>].grouping_status
                = Ungroupable
          /\ u \notin LoadedUserIds
          /\ \A i \in 1..Len(groups_users) : groups_users[i].user_id # u

\* C21 as stated: whoever a call left in no persisted group is loaded by the
\* next call for the same cohort.
C21_UnassignedLoadedByNextCall ==
    [][StartsCallForSameCohort(call, call') =>
          LeftUnassigned(call) \subseteq UsersLoadedIn(call')]_vars

\* an earlier pass for the cohort of the call was committed: when the call
\* started, a row of the cohort was grouped or ungroupable
FollowsCommittedPass ==
    /\ InCohortCall /\ call.cohort_id \in CohortIds
    /\ \E key \in DOMAIN TablesBefore.courses_users :
          /\ key[2] = call.cohort_id
          /\ TablesBefore.courses_users[key].grouping_status # AwaitingGrouping

\* the membership rows of a user in the groups of a cohort
CohortMemberships(u, k) ==
    {i \in 1..Len(groups_users) :
        /\ groups_users[i].user_id = u
        /\ \E j \in 1..Len(groups) :
              /\ groups[j].group_id = groups_users[i].group_id
              /\ groups[j].cohort_id = k}

\* C29: with the calls for a cohort made one after the other and the
\* enrollment unchanged, a call that follows a committed pass in which a
\* loaded user had availability loads no user, issues no statement and
\* leaves the three tables as they were; so a user has at most one
\* membership row in the groups of a cohort.
C29_CallAfterCommittedPassDoesNothing ==
    /\ [](FollowsCommittedPass =>
             /\ call.user_rows = <<>>
             /\ call.pc = "returned"
             /\ CallResult = CohortSchedulingResult(call.cohort_id, 0, 0, 0, <<>>)
             /\ call.statements = 0
             /\ <<courses_users, groups, groups_users>> = call.tables_before)
    /\ [](pc = "cohort" =>
             \A u \in UserIds, k \in CohortIds :
                 Cardinality(CohortMemberships(u, k)) <= 1)
    /\ [][(StartsCallForSameCohort(call, call') /\ PassCommitted(call)) =>
             /\ call'.user_rows = <<>>
             /\ UNCHANGED <<courses_users, groups, groups_users>>]_vars

\* The second call for a cohort has returned; the first one had committed
\* groups with members.
C29_Witness ==
    /\ FollowsCommittedPass /\ call.pc = "returned"
    /\ \E u \in UserIds : CohortMemberships(u, call.cohort_id) # {}

\* the three tables are as they were when the call started
TablesAsBefore == <<courses_users, groups, groups_users>> = call.tables_before

\* the step adds an insert or an update to the transaction of the call
IssuesStatement ==
    /\ pc = "cohort"
    /\ call'.pc \notin {"idle", "raised"}
    /\ call'.transaction # call.transaction
    /\ call'.transaction # EmptyTransaction

\* C24: schedule_cohort issues no group insert, membership insert or
\* grouping_status update before the optimizer (and the balancer, when
\* called) has returned; when the optimizer raises or the call is cancelled
\* while optimizing, the tables are what they were before the call.
C24_NothingWrittenBeforeOptimizerReturns ==
    /\ []((InCohortCall /\ (call.pc = "scheduling" \/ ~call.optimizer_invoked)) =>
             /\ call.transaction = EmptyTransaction
             /\ call.statements = 0
             /\ TablesAsBefore)
    /\ []((InCohortCall /\ call.error \in {"optimizer", "cancelled"}) =>
             /\ call.pc = "raised" /\ call.result = None
             /\ call.transaction = EmptyTransaction
             /\ call.error = "optimizer" => call.statements = 0
             /\ TablesAsBefore)
    /\ [][IssuesStatement =>
             /\ call.optimizer_invoked
             /\ call.pc \in {"persist", "update_grouped", "update_ungroupable"}]_vars

\* A call that had loaded users with availability was cancelled while
\* optimizing, the error raised at the first await after the optimizer; an
\* earlier call had committed groups.
C24_Witness ==
    /\ InCohortCall /\ call.error = "cancelled"
    /\ call.statements = 0 /\ call.user_rows # <<>>
    /\ groups # <<>> /\ groups_users # <<>>
    /\ \E u \in LoadedUserIds : StatusOf(u) = AwaitingGrouping

-----------------------------------------------------------------------------
(* Claims about two schedule_cohort calls at once *)

BothFinished == pc = "cohort" /\ Finished(call) /\ Finished(other_call)
UsersLoadedBy(c) == {c.user_rows[i].user_id : i \in 1..Len(c.user_rows)}
EnrolledIn(cohort_id) == {u \in UserIds : <<u, cohort_id>> \in DOMAIN courses_users}
GroupIdsOf(c) == {c.transaction.groups[i].group_id : i \in 1..Len(c.transaction.groups)}
\* the grouping_status a finished call has given a user it loaded: none when
\* it raised or returned early with nobody to schedule
StatusGivenBy(c, u) ==
    IF c.pc # "returned" \/ c.people = <<>> THEN AwaitingGrouping
    ELSE IF u \in c.grouped_user_ids THEN Grouped ELSE Ungroupable
\* what a finished call has done to the row of user u in cohort k
StatusAfter(c, u, k) ==
    IF k = c.cohort_id /\ u \in UsersLoadedBy(c)
    THEN StatusGivenBy(c, u) ELSE AwaitingGrouping
\* a call works on rows of its own cohort only
OwnCohortOnly(c) ==
    /\ \A i \in 1..Len(c.transaction.groups) :
          c.transaction.groups[i].cohort_id = c.cohort_id
    /\ \A i \in 1..Len(c.transaction.groups_users) :
          c.transaction.groups_users[i].group_id \in GroupIdsOf(c)
    /\ \A i \in 1..Len(c.transaction.updates) :
          /\ c.transaction.updates[i].cohort_id = c.cohort_id
          /\ c.transaction.updates[i].user_ids \subseteq UsersLoadedBy(c)
\* the two calls are the only ones made so far
TwoCallsMade ==
    /\ call.pc # "idle" /\ other_call.pc # "idle"
    /\ calls_started = 2
DifferentCohorts ==
    /\ TwoCallsMade
    /\ call.cohort_id # other_call.cohort_id
\* what the tables hold once the two calls have run one after the other,
\* given what each of them has loaded and what the optimizer gave it
SequentialTables(first, second) ==
    [courses_users |->
        [key \in DOMAIN courses_users |->
            [courses_users[key] EXCEPT !.grouping_status =
                IF StatusAfter(second, key[1], key[2]) # AwaitingGrouping
                THEN StatusAfter(second, key[1], key[2])
                ELSE StatusAfter(first, key[1], key[2])]],
     groups |-> Range(first.transaction.groups) \cup Range(second.transaction.groups),
     groups_users |-> Range(first.transaction.groups_users)
                        \cup Range(second.transaction.groups_users)]
\* the group ids a sequence hands out to calls that run one after the other
IdsOneAfterTheOther(first, second) ==
    \A a \in GroupIdsOf(first), b \in GroupIdsOf(second) : a < b

SameCohort ==
    /\ TwoCallsMade
    /\ call.cohort_id = other_call.cohort_id
MembershipsOf(u, c) ==
    {i \in 1..Len(groups_users) :
        groups_users[i].user_id = u /\ groups_users[i].group_id \in GroupIdsOf(c)}

\* C20: nothing protects two concurrent schedule_cohort calls for the same
\* cohort from each other. A user a call has loaded stays awaiting_grouping
\* in the table until a call commits, so the other call loads it too; both
\* calls commit, each leaving every group and membership it made, and the
\* user's grouping_status is what one of the two calls has written.
C20_SameCohortCallsRace ==
    (pc = "cohort" /\ SameCohort /\ call.cohort_id \in CohortIds) =>
        /\ (~Finished(call) /\ ~Finished(other_call)) =>
              /\ UsersLoadedBy(call) = UsersLoadedBy(other_call)
              /\ \A u \in UsersLoadedBy(call) :
                    courses_users[<<u, call.cohort_id>>].grouping_status = AwaitingGrouping
        /\ BothFinished =>
              /\ \A c \in {call, other_call} :
                    /\ Range(c.transaction.groups) \subseteq Range(groups)
                    /\ Range(c.transaction.groups_users) \subseteq Range(groups_users)
              /\ \A u \in UsersLoadedBy(call) \cap UsersLoadedBy(other_call) :
                    /\ courses_users[<<u, call.cohort_id>>].grouping_status
                          \in {StatusGivenBy(call, u), StatusGivenBy(other_call, u)}
                    /\ \A c \in {call, other_call} :
                          (c.pc = "returned" /\ u \in c.grouped_user_ids) =>
                              Cardinality(MembershipsOf(u, c)) = 1

\* Both calls have loaded u1 and committed: u1 is a member of a group of
\* each call, or grouped by one call and marked ungroupable by the other.
C20_Witness ==
    /\ BothFinished /\ SameCohort
    /\ call.pc = "returned" /\ other_call.pc = "returned"
    /\ "u1" \in UsersLoadedBy(call) \cap UsersLoadedBy(other_call)
    /\ \/ /\ MembershipsOf("u1", call) # {} /\ MembershipsOf("u1", other_call) # {}
          /\ GroupIdsOf(call) \cap GroupIdsOf(other_call) = {}
       \/ /\ "u1" \in other_call.grouped_user_ids
          /\ "u1" \notin call.grouped_user_ids
          /\ courses_users[<<"u1", call.cohort_id>>].grouping_status = Ungroupable

-----------------------------------------------------------------------------
(* Claims about find_availability_overlap *)

OverlapReturned == pc = "overlap" /\ overlap # None
Requested == Range(member_ids)
AllSlots == DayNames \X {SlotHour(NineOClock), SlotHour(TenOClock)}
SlotsIn(items) ==
    UNION {{<<items[i].day, SlotHour(items[i].slots[j])>> : j \in 1..Len(items[i].slots)} :
            i \in 1..Len(items)}
FullSlots(m) == SlotsIn(GetOrEmpty(stored_user_data[m], "availability"))
IfNeededSlots(m) == SlotsIn(GetOrEmpty(stored_user_data[m], "if_needed"))
\* the requested members a slot has: fully available, and available at all
FullSetAt(slot) == {m \in Requested : slot \in FullSlots(m)}
CombinedAt(slot) == {m \in Requested : slot \in FullSlots(m) \cup IfNeededSlots(m)}

\* C13: find_availability_overlap prefers full availability. Whenever some
\* (day, hour) slot has every requested member fully available, a slot is
\* returned and every requested member is fully available at it.
C13_FullAvailabilityPreferred ==
    (/\ OverlapReturned
     /\ \E slot \in AllSlots : FullSetAt(slot) # {} /\ FullSetAt(slot) = Requested) =>
        /\ overlap[1] # None
        /\ \A m \in Requested : overlap[1] \in FullSlots(m)

\* Two members with a slot where both are fully available and another slot
\* that fits only with an if-needed participant.
C13_Witness ==
    /\ OverlapReturned
    /\ Cardinality(Requested) = 2
    /\ overlap[1] # None
    /\ FullSetAt(overlap[1]) = Requested
    /\ \E slot \in AllSlots :
          CombinedAt(slot) = Requested /\ FullSetAt(slot) # Requested

\* C14: a slot is returned only if every requested member is fully available
\* or if-needed at it, and no-match is returned exactly when no (day, hour)
\* slot has the requested member set as its set of fully-available or
\* if-needed members (so also whenever a requested member has no stored data).
C14_MatchIffSomeSlotFitsEverybody ==
    OverlapReturned =>
        /\ overlap[1] # None =>
              \A m \in Requested : overlap[1] \in FullSlots(m) \cup IfNeededSlots(m)
        /\ overlap[1] = None <=>
              ~ \E slot \in AllSlots :
                    CombinedAt(slot) # {} /\ CombinedAt(slot) = Requested

\* No-match for two members of whom one has no stored data and the other
\* has availability.
C14_Witness ==
    /\ OverlapReturned
    /\ overlap[1] = None
    /\ Cardinality(Requested) = 2
    /\ \E m \in Requested : stored_user_data[m].keys = {}
    /\ \E m \in Requested : FullSlots(m) # {}

-----------------------------------------------------------------------------
(* Claims about group_people_by_course *)

GrouperReturned == pc = "grouped"
\* how often the person is listed under the course name
TimesListed(person, course) ==
    IF BucketOf(people_by_course, course) = 0 THEN 0
    ELSE Cardinality({i \in 1..Len(people_by_course[BucketOf(people_by_course, course)].people) :
            people_by_course[BucketOf(people_by_course, course)].people[i] = person})
InputPos(person) == CHOOSE i \in 1..Len(all_people) : all_people[i] = person
BucketNames == {"a", "b", Uncategorized}

\* C15: group_people_by_course lists each person exactly once under every
\* course of person.courses and under no other course, a person without
\* courses exactly once under the reserved Uncategorized and nowhere else;
\* there is one bucket per course name, it holds people of the input only,
\* in input order.
C15_BucketsFollowCourses ==
    GrouperReturned =>
        /\ \A i \in 1..Len(all_people) : \A course \in BucketNames :
              TimesListed(all_people[i], course) =
                  IF \/ course \in Range(all_people[i].courses)
                     \/ (all_people[i].courses = <<>> /\ course = Uncategorized)
                  THEN 1 ELSE 0
        /\ \A b, c \in 1..Len(people_by_course) :
              b # c => people_by_course[b].course_name # people_by_course[c].course_name
        /\ \A b \in 1..Len(people_by_course) :
              /\ people_by_course[b].course_name \in BucketNames
              /\ \A i \in 1..Len(people_by_course[b].people) :
                    people_by_course[b].people[i] \in Range(all_people)
              /\ \A i, j \in 1..Len(people_by_course[b].people) :
                    i < j => InputPos(people_by_course[b].people[i])
                                < InputPos(people_by_course[b].people[j])

\* Three people: one in two courses, one in one of them, one without courses
\* next to a bucket of two.
C15_Witness ==
    /\ GrouperReturned
    /\ Len(all_people) = 3
    /\ \E i \in 1..3 : Len(all_people[i].courses) = 2
    /\ \E i \in 1..3 : all_people[i].courses = <<>>
    /\ \E b \in 1..Len(people_by_course) :
          people_by_course[b].course_name # Uncategorized
          /\ Len(people_by_course[b].people) = 2

====
